---- MODULE Spec2Model ----
(***************************************************************************)
(* ExcelParser.parseExcel (utils/xlsx/excel.parser.ts): the reader that    *)
(* decodes the first sheet of a workbook, checks the expected headers,     *)
(* maps and coerces every row by fieldMapping / schema kind, and validates *)
(* every assembled record with the schema.                                 *)
(*                                                                         *)
(* JavaScript values are tagged records; a string is the sequence of its   *)
(* characters, a finite number is the decimal fraction num/den with den a  *)
(* power of ten and no trailing zero in the fraction.                      *)
(***************************************************************************)
EXTENDS Integers, Sequences, FiniteSets, TLC

VARIABLES options, file, pc, jsonData, idx, transformedData, validated, result,
          error

\* JsonDownloader.generateCSV / generateExcel: the call, its position, and
\* the locals of the call; transformArgs records what transformData received
VARIABLES wcall, wpc, widx, transformArgs, processedData, filteredData,
          mappedData, output, werror

rvars == <<options, file, pc, jsonData, idx, transformedData, validated, result,
           error>>

wvars == <<wcall, wpc, widx, transformArgs, processedData, filteredData,
           mappedData, output, werror>>

\* a call of AES.encrypt, AES.decrypt or Currency.deserialize: the call, its
\* position and its outcome
VARIABLES ucall, upc, uout

\* the Logger singleton: its config, currentEnv and logQueue, and what the
\* last logging call did
VARIABLES lconfig, lenv, lqueue, lout

\* the locals of the parseExcel calls that run at the same time, by call
VARIABLES calls

\* a record set on its way from parseExcel through generateExcel and back
VARIABLES trip

xvars == <<ucall, upc, uout, lconfig, lenv, lqueue, lout, calls, trip>>

vars == <<rvars, wvars, xvars>>

\* no writer call has been made
WriterIdle ==
    /\ wcall = [made |-> FALSE]
    /\ wpc = "idle"
    /\ widx = 0
    /\ transformArgs = <<>>
    /\ processedData = <<>>
    /\ filteredData = <<>>
    /\ mappedData = <<>>
    /\ output = [kind |-> "none"]
    /\ werror = [type |-> "none"]

\* no utility has been called, the logger module is not loaded, no parser
\* calls overlap and no record set is under way
XIdle ==
    /\ ucall = [made |-> FALSE]
    /\ upc = "idle"
    /\ uout = [kind |-> "none"]
    /\ lconfig = [loaded |-> FALSE]
    /\ lenv = ""
    /\ lqueue = <<>>
    /\ lout = [kind |-> "none"]
    /\ calls = <<>>
    /\ trip = [stage |-> "idle"]

(***************************************************************************)
(* Bounds of the model.                                                    *)
(***************************************************************************)
MaxRows == 2
MaxExpected == 2
MaxRecords == 2

(***************************************************************************)
(* JavaScript values.                                                      *)
(***************************************************************************)
Undefined == [t |-> "undefined"]
Null == [t |-> "null"]
NaN == [t |-> "nan"]
Bool(b) == [t |-> "boolean", b |-> b]
Str(s) == [t |-> "string", s |-> s]
Arr(a) == [t |-> "array", items |-> a]
DateOf(v) == [t |-> "date", from |-> v]

RECURSIVE Normalize(_, _)
Normalize(n, d) ==
    IF d > 1 /\ n % 10 = 0 THEN Normalize(n \div 10, d \div 10)
    ELSE [t |-> "number", num |-> n, den |-> d]

Num(n) == [t |-> "number", num |-> n, den |-> 1]

Digits == <<"0", "1", "2", "3", "4", "5", "6", "7", "8", "9">>

IsDigit(c) == \E i \in 1..10 : Digits[i] = c

DigitVal(c) == (CHOOSE i \in 1..10 : Digits[i] = c) - 1

IsSpace(c) == c = " "

\* String.prototype.trim
RECURSIVE Trim(_)
Trim(s) ==
    IF s = <<>> THEN s
    ELSE IF IsSpace(Head(s)) THEN Trim(Tail(s))
    ELSE IF IsSpace(s[Len(s)]) THEN Trim(SubSeq(s, 1, Len(s) - 1))
    ELSE s

LowerChar(c) ==
    CASE c = "A" -> "a"
      [] c = "T" -> "t"
      [] c = "R" -> "r"
      [] c = "U" -> "u"
      [] c = "E" -> "e"
      [] c = "N" -> "n"
      [] OTHER -> c

\* String.prototype.toLowerCase
ToLowerCase(s) == [i \in 1..Len(s) |-> LowerChar(s[i])]

RECURSIVE Pow10(_)
Pow10(k) == IF k = 0 THEN 1 ELSE 10 * Pow10(k - 1)

RECURSIVE DigitsValue(_)
DigitsValue(s) ==
    IF s = <<>> THEN 0
    ELSE 10 * DigitsValue(SubSeq(s, 1, Len(s) - 1)) + DigitVal(s[Len(s)])

AllDigits(s) == \A i \in 1..Len(s) : IsDigit(s[i])

\* StrUnsignedDecimalLiteral without exponent: digits, digits.digits,
\* digits. and .digits
UnsignedDecimal(s) ==
    LET dots == {i \in 1..Len(s) : s[i] = "."}
    IN  IF s = <<>> THEN NaN
        ELSE IF dots = {} THEN
            IF AllDigits(s) THEN Num(DigitsValue(s)) ELSE NaN
        ELSE IF Cardinality(dots) > 1 THEN NaN
        ELSE LET p == CHOOSE i \in dots : TRUE
                 whole == SubSeq(s, 1, p - 1)
                 frac == SubSeq(s, p + 1, Len(s))
             IN  IF Len(s) = 1 \/ ~AllDigits(whole) \/ ~AllDigits(frac) THEN NaN
                 ELSE Normalize(DigitsValue(whole) * Pow10(Len(frac))
                                    + DigitsValue(frac),
                                Pow10(Len(frac)))

Negate(n) == IF n = NaN THEN NaN ELSE [n EXCEPT !.num = 0 - n.num]

\* StringToNumber: the trimmed text is empty (0), a signed decimal literal,
\* or not a number
StringToNumber(s) ==
    LET body == Trim(s)
    IN  IF body = <<>> THEN Num(0)
        ELSE IF Head(body) = "-" THEN Negate(UnsignedDecimal(Tail(body)))
        ELSE IF Head(body) = "+" THEN UnsignedDecimal(Tail(body))
        ELSE UnsignedDecimal(body)

RECURSIVE NatToString(_)
NatToString(n) ==
    IF n < 10 THEN <<Digits[n + 1]>>
    ELSE Append(NatToString(n \div 10), Digits[(n % 10) + 1])

RECURSIVE PadLeft(_, _)
PadLeft(s, k) == IF Len(s) >= k THEN s ELSE PadLeft(<<"0">> \o s, k)

RECURSIVE Log10(_)
Log10(d) == IF d <= 1 THEN 0 ELSE 1 + Log10(d \div 10)

\* Number::toString for a decimal fraction
NumberToString(v) ==
    IF v = NaN THEN <<"N", "a", "N">>
    ELSE LET abs == IF v.num < 0 THEN 0 - v.num ELSE v.num
             sign == IF v.num < 0 THEN <<"-">> ELSE <<>>
             whole == NatToString(abs \div v.den)
             frac == PadLeft(NatToString(abs % v.den), Log10(v.den))
         IN  IF v.den = 1 THEN sign \o whole
             ELSE sign \o whole \o <<".">> \o frac

RECURSIVE StringOf(_)
RECURSIVE Join(_)
\* Array.prototype.join(","): null and undefined elements are empty text
Join(a) ==
    IF a = <<>> THEN <<>>
    ELSE LET h == IF Head(a) \in {Null, Undefined} THEN <<>>
                  ELSE StringOf(Head(a))
         IN  IF Len(a) = 1 THEN h ELSE h \o <<",">> \o Join(Tail(a))

\* String(value)
StringOf(v) ==
    CASE v.t = "undefined" -> <<"u", "n", "d", "e", "f", "i", "n", "e", "d">>
      [] v.t = "null" -> <<"n", "u", "l", "l">>
      [] v.t = "boolean" ->
            IF v.b THEN <<"t", "r", "u", "e">> ELSE <<"f", "a", "l", "s", "e">>
      [] v.t = "number" -> NumberToString(v)
      [] v.t = "nan" -> NumberToString(v)
      [] v.t = "string" -> v.s
      [] v.t = "array" -> Join(v.items)

\* Number(value)
ToNumber(v) ==
    CASE v.t = "undefined" -> NaN
      [] v.t = "null" -> Num(0)
      [] v.t = "boolean" -> IF v.b THEN Num(1) ELSE Num(0)
      [] v.t = "number" -> v
      [] v.t = "nan" -> NaN
      [] v.t = "string" -> StringToNumber(v.s)
      [] v.t = "array" -> StringToNumber(Join(v.items))

\* ToBoolean(value): the falsy values are undefined, null, false, 0, NaN, ""
Truthy(v) ==
    ~(\/ v \in {Undefined, Null, NaN, Bool(FALSE), Num(0)}
      \/ v = Str(<<>>))

(***************************************************************************)
(* The configuration (ExcelParserOptions) and the decoded sheet.           *)
(***************************************************************************)
\* the headers a configuration can name, and those the sheets carry
Headers == {"Name", "Price", "Stock"}
SheetHeaders == {"Name", "Price"}
Fields == {"name", "price"}

\* the schema kinds transformData tells apart; "other" is a field schema of
\* none of these classes
Kinds == {"number", "string", "boolean", "date", "array", "enum", "optional",
          "nullable", "other"}

\* z.enum(["A", "B"])
EnumOptions == {Str(<<"A">>), Str(<<"B">>)}

\* row[excelHeader]: a header the row does not hold reads as undefined
Cell(row, header) == IF header \in DOMAIN row THEN row[header] ELSE Undefined

\* the custom transformations of the README example
\*   name: (value) => value.toLowerCase().trim()
\*   price: (value) => { const n = Number(value); return isNaN(n) ? null : n }
\* the result is the value returned, or the exception thrown
ApplyTransformation(fn, value) ==
    CASE fn = "lowerTrim" ->
            IF value.t = "string"
            THEN [threw |-> FALSE, value |-> Str(Trim(ToLowerCase(value.s)))]
            ELSE [threw |-> TRUE, value |-> value]
      [] fn = "numOrNull" ->
            [threw |-> FALSE,
             value |-> IF ToNumber(value) = NaN THEN Null ELSE ToNumber(value)]

TransformationNames == {"lowerTrim", "numOrNull"}

\* variant: the earlier conversion, Number(value) for every raw value
CoerceNumberAlways(value) == ToNumber(value)

\* ZodNumber: "" and null become null, anything else Number(value)
CoerceNumber(value) ==
    IF value = Str(<<>>) THEN Null
    ELSE IF value = Null THEN Null
    ELSE ToNumber(value)

\* variant: the earlier conversion, String(value).trim() for every raw value
CoerceStringAlways(value) == Str(Trim(StringOf(value)))

\* ZodString: null and undefined become "", anything else its trimmed text
CoerceString(value) ==
    IF value = Null \/ value = Undefined THEN Str(<<>>)
    ELSE Str(Trim(StringOf(value)))

\* variant: every truthy raw value counts as true
CoerceBooleanTruthy(value) == Bool(Truthy(value))

\* ZodBoolean
CoerceBoolean(value) ==
    Bool(\/ value = Bool(TRUE)
         \/ value = Str(<<"t", "r", "u", "e">>)
         \/ value = Str(<<"1">>)
         \/ value = Num(1))

\* ZodDate
CoerceDate(value) == IF Truthy(value) THEN DateOf(value) ELSE Null

\* ZodArray
CoerceArray(value) ==
    IF value.t = "array" THEN value
    ELSE IF Truthy(value) THEN Arr(<<value>>)
    ELSE Arr(<<>>)

\* variant: a value outside the options is kept
CoerceEnumKeep(value) == value

\* ZodEnum
CoerceEnum(value) == IF value \in EnumOptions THEN value ELSE Null

\* ZodOptional
CoerceOptional(value) == IF value # Undefined THEN value ELSE Null

\* ZodNullable
CoerceNullable(value) == IF value = Str(<<>>) THEN Null ELSE value

\* the automatic conversion by the class of the field schema
Coerce(kind, value) ==
    CASE kind = "number" -> CoerceNumber(value)
      [] kind = "string" -> CoerceString(value)
      [] kind = "boolean" -> CoerceBoolean(value)
      [] kind = "date" -> CoerceDate(value)
      [] kind = "array" -> CoerceArray(value)
      [] kind = "enum" -> CoerceEnum(value)
      [] kind = "optional" -> CoerceOptional(value)
      [] kind = "nullable" -> CoerceNullable(value)
      [] OTHER -> value

\* variant: the schema kind's conversion is applied to the result of the
\* custom transformation as well
TransformFieldThenCoerce(opts, row, entry) ==
    LET value == Cell(row, entry[1])
        targetField == entry[2]
        kind == IF targetField \in DOMAIN opts.shape
                THEN opts.shape[targetField] ELSE "other"
    IN  IF targetField \in DOMAIN opts.transformations
        THEN LET r == ApplyTransformation(opts.transformations[targetField], value)
             IN  IF r.threw THEN r
                 ELSE [threw |-> FALSE, value |-> Coerce(kind, r.value)]
        ELSE [threw |-> FALSE, value |-> Coerce(kind, value)]

\* one [excelHeader, targetField] entry of fieldMapping applied to a row:
\* the value assigned to transformedRow[targetField], or the exception of
\* the custom transformation
TransformField(opts, row, entry) ==
    LET value == Cell(row, entry[1])
        targetField == entry[2]
    IN  IF targetField \in DOMAIN opts.transformations
        THEN ApplyTransformation(opts.transformations[targetField], value)
        ELSE IF targetField \in DOMAIN opts.shape
        THEN [threw |-> FALSE, value |-> Coerce(opts.shape[targetField], value)]
        ELSE [threw |-> FALSE, value |-> value]

\* variant: a key that is already set keeps its value
PutOnce(rec, key, value) ==
    IF key \in DOMAIN rec THEN rec
    ELSE [k \in DOMAIN rec \cup {key} |-> IF k = key THEN value ELSE rec[k]]

Put(rec, key, value) ==
    [k \in DOMAIN rec \cup {key} |-> IF k = key THEN value ELSE rec[k]]

\* the forEach over Object.entries(fieldMapping) for one row, from entry i on
RECURSIVE TransformEntries(_, _, _, _)
TransformEntries(opts, row, i, acc) ==
    IF i > Len(opts.fieldMapping) THEN [threw |-> FALSE, row |-> acc]
    ELSE LET entry == opts.fieldMapping[i]
             r == TransformField(opts, row, entry)
         IN  IF r.threw THEN [threw |-> TRUE, field |-> entry[2]]
             ELSE TransformEntries(opts, row, i + 1, Put(acc, entry[2], r.value))

EmptyRecord == [k \in {} |-> Null]

TransformRow(opts, row) == TransformEntries(opts, row, 1, EmptyRecord)

(***************************************************************************)
(* schema.parse(row) of the zod object schema.  A field of the shape is    *)
(* z.number(), z.string(), z.boolean(), z.date(), z.array(z.any()),        *)
(* z.enum(["A","B"]), z.string().optional(), z.string().nullable() or      *)
(* z.any(), by its kind.                                                   *)
(***************************************************************************)
\* the verdicts zod can reach on one value: whether a Date built from text
\* is valid is left to the engine's date parser, so both verdicts are open
FieldVerdicts(kind, value) ==
    CASE kind = "number" -> {value.t = "number"}
      [] kind = "string" -> {value.t = "string"}
      [] kind = "boolean" -> {value.t = "boolean"}
      [] kind = "date" ->
            IF value.t # "date" THEN {FALSE}
            ELSE IF value.from.t \in {"number", "boolean"} THEN {TRUE}
            ELSE BOOLEAN
      [] kind = "array" -> {value.t = "array"}
      [] kind = "enum" -> {value \in EnumOptions}
      [] kind = "optional" -> {value.t \in {"undefined", "string"}}
      [] kind = "nullable" -> {value.t \in {"null", "string"}}
      [] OTHER -> {TRUE}

Field(rec, f) == IF f \in DOMAIN rec THEN rec[f] ELSE Undefined

\* the verdicts of schema.parse on an assembled record
SchemaVerdicts(shape, rec) ==
    IF \E f \in DOMAIN shape : FieldVerdicts(shape[f], Field(rec, f)) = {FALSE}
    THEN {FALSE}
    ELSE IF \A f \in DOMAIN shape : FieldVerdicts(shape[f], Field(rec, f)) = {TRUE}
    THEN {TRUE}
    ELSE BOOLEAN

\* the value schema.parse returns for an accepted record: unknown keys are
\* stripped
SchemaOutput(shape, rec) == [f \in DOMAIN shape \cap DOMAIN rec |-> rec[f]]

(***************************************************************************)
(* The configurations and files the model draws from.                      *)
(***************************************************************************)
SeqsUpTo(S, n) == UNION {[1..k -> S] : k \in 0..n}

\* Object.entries(fieldMapping): the entries in insertion order, no header
\* twice
FieldMappings ==
    {m \in SeqsUpTo(SheetHeaders \X Fields, Cardinality(SheetHeaders)) :
        \A i, j \in 1..Len(m) : m[i][1] = m[j][1] => i = j}

Options(expected, mapping, shape, transformations) ==
    [expectedHeaders |-> expected, fieldMapping |-> mapping, shape |-> shape,
     transformations |-> transformations]

\* z.object({ name: z.string(), price: z.number() }) under every header
\* list and field mapping
TableOptions ==
    {Options(e, m, [name |-> "string", price |-> "number"], t) :
        e \in SeqsUpTo(Headers, MaxExpected), m \in FieldMappings,
        t \in {EmptyRecord, [name |-> "lowerTrim"]}}

\* a one-column table whose field is of every kind, with and without a
\* custom transformation
ColumnOptions ==
    {Options(<<>>, <<<<"Name", "name">>>>, [name |-> k], t) :
        k \in Kinds,
        t \in {EmptyRecord} \cup {[name |-> fn] : fn \in TransformationNames}}

AllOptions == TableOptions \cup ColumnOptions

TableRows ==
    {[Name |-> Str(<<"A", "n", "n", " ">>), Price |-> Str(<<"1", "0", ".", "5">>)],
     [Name |-> Num(5), Price |-> Str(<<"1", "0", ".", "5">>)],
     [Name |-> Str(<<"A", "n", "n", " ">>)],
     [Name |-> Num(5)],
     [Price |-> Str(<<"1", "0", ".", "5">>)]}

RawValues ==
    {Null, Bool(TRUE), Bool(FALSE), Num(0), Num(1), Num(2), Normalize(105, 10),
     Str(<<>>), Str(<<" ">>), Str(<<"1">>), Str(<<"0">>),
     Str(<<"t", "r", "u", "e">>), Str(<<"T", "R", "U", "E">>),
     Str(<<"y", "e", "s">>), Str(<<"1", "0", ".", "5">>),
     Str(<<"-", "2", ".", "5", "0">>), Str(<<"a", "b", "c">>),
     Str(<<" ", "A", " ">>), Str(<<"A">>),
     Arr(<<>>), Arr(<<Num(1)>>), Arr(<<Str(<<"A">>), Null>>)}

NoFile == [present |-> FALSE]
FileOf(rows) == [present |-> TRUE, sheet |-> rows]

\* a file is its first sheet as XLSX.utils.sheet_to_json decodes it
Files ==
    {FileOf(rows) : rows \in SeqsUpTo(TableRows, MaxRows)}
        \cup {FileOf(<<[Name |-> v]>>) : v \in RawValues}

NoError == [type |-> "none"]

(***************************************************************************)
(* parseExcel.                                                             *)
(***************************************************************************)
\* new ExcelParser(options)
Init ==
    /\ options \in AllOptions
    /\ file = NoFile
    /\ pc = "idle"
    /\ jsonData = <<>>
    /\ idx = 0
    /\ transformedData = <<>>
    /\ validated = <<>>
    /\ result = <<>>
    /\ error = NoError
    /\ WriterIdle
    /\ XIdle

Throw(e) ==
    /\ pc' = "failed"
    /\ error' = e

\* parseExcel(file) up to the await of readFileAsArrayBuffer
ParseExcel(f) ==
    /\ pc = "idle"
    /\ file' = f
    /\ IF ~f.present
       THEN Throw([type |-> "NoFile"])
       ELSE pc' = "reading" /\ error' = error
    /\ UNCHANGED <<options, jsonData, idx, transformedData, validated, result>>

\* reader.onload resolves the promise; convertToJson decodes the first sheet
ReaderOnLoad ==
    /\ pc = "reading"
    /\ jsonData' = file.sheet
    /\ pc' = "validateHeaders"
    /\ UNCHANGED <<options, file, idx, transformedData, validated, result, error>>

\* reader.onerror rejects the promise
ReaderOnError ==
    /\ pc = "reading"
    /\ Throw([type |-> "ReadError"])
    /\ UNCHANGED <<options, file, jsonData, idx, transformedData, validated,
                   result>>

\* variant: only the first missing header is reported
MissingHeadersFirstOnly(expected, data) ==
    LET fileHeaders == DOMAIN data[1]
        Missing(header) == header \notin fileHeaders
        all == SelectSeq(expected, Missing)
    IN  IF all = <<>> THEN all ELSE <<Head(all)>>

MissingHeaders(expected, data) ==
    LET fileHeaders == DOMAIN data[1]
        Missing(header) == header \notin fileHeaders
    IN  SelectSeq(expected, Missing)

\* variant: the header comparison comes before the empty check, an empty
\* sheet having no headers at all
ValidateHeadersBeforeEmpty ==
    /\ pc = "validateHeaders"
    /\ LET missingHeaders ==
               IF Len(jsonData) = 0 THEN options.expectedHeaders
               ELSE MissingHeaders(options.expectedHeaders, jsonData)
       IN  IF Len(missingHeaders) > 0
           THEN /\ Throw([type |-> "MissingHeaders", headers |-> missingHeaders])
                /\ idx' = idx
           ELSE IF Len(jsonData) = 0
           THEN Throw([type |-> "EmptyFile"]) /\ idx' = idx
           ELSE /\ pc' = "transformData"
                /\ idx' = 1
                /\ error' = error
    /\ UNCHANGED <<options, file, jsonData, transformedData, validated, result>>

\* variant: the first row is processed before the missing headers are
\* reported
ValidateHeadersAfterFirstRow ==
    /\ pc = "validateHeaders"
    /\ IF Len(jsonData) = 0
       THEN Throw([type |-> "EmptyFile"]) /\ idx' = idx
                /\ transformedData' = transformedData
       ELSE LET missingHeaders == MissingHeaders(options.expectedHeaders, jsonData)
                r == TransformRow(options, jsonData[1])
            IN  IF Len(missingHeaders) > 0
                THEN /\ Throw([type |-> "MissingHeaders",
                               headers |-> missingHeaders])
                     /\ idx' = idx
                     /\ transformedData' = IF r.threw THEN <<>> ELSE <<r.row>>
                ELSE /\ pc' = "transformData"
                     /\ idx' = 1
                     /\ error' = error
                     /\ transformedData' = transformedData
    /\ UNCHANGED <<options, file, jsonData, validated, result>>

ValidateHeaders ==
    /\ pc = "validateHeaders"
    /\ IF Len(jsonData) = 0
       THEN Throw([type |-> "EmptyFile"]) /\ idx' = idx
       ELSE LET missingHeaders == MissingHeaders(options.expectedHeaders, jsonData)
            IN  IF Len(missingHeaders) > 0
                THEN /\ Throw([type |-> "MissingHeaders",
                               headers |-> missingHeaders])
                     /\ idx' = idx
                ELSE /\ pc' = "transformData"
                     /\ idx' = 1
                     /\ error' = error
    /\ UNCHANGED <<options, file, jsonData, transformedData, validated, result>>

\* variant: each row is validated as soon as it is assembled
TransformDataValidating ==
    /\ pc = "transformData"
    /\ LET r == TransformRow(options, jsonData[idx])
       IN  IF r.threw
           THEN /\ Throw([type |-> "TransformationThrew", row |-> idx,
                          field |-> r.field])
                /\ UNCHANGED <<idx, transformedData>>
           ELSE IF SchemaVerdicts(options.shape, r.row) = {FALSE}
           THEN /\ Throw([type |-> "RowValidation", row |-> idx + 1])
                /\ transformedData' = Append(transformedData, r.row)
                /\ idx' = idx
           ELSE /\ transformedData' = Append(transformedData, r.row)
                /\ idx' = IF idx < Len(jsonData) THEN idx + 1 ELSE 1
                /\ pc' = IF idx < Len(jsonData) THEN pc ELSE "validateData"
                /\ error' = error
    /\ UNCHANGED <<options, file, jsonData, validated, result>>

\* one iteration of data.map in transformData
TransformData ==
    /\ pc = "transformData"
    /\ LET r == TransformRow(options, jsonData[idx])
       IN  IF r.threw
           THEN /\ Throw([type |-> "TransformationThrew", row |-> idx,
                          field |-> r.field])
                /\ UNCHANGED <<idx, transformedData>>
           ELSE /\ transformedData' = Append(transformedData, r.row)
                /\ idx' = IF idx < Len(jsonData) THEN idx + 1 ELSE 1
                /\ pc' = IF idx < Len(jsonData) THEN pc ELSE "validateData"
                /\ error' = error
    /\ UNCHANGED <<options, file, jsonData, validated, result>>

\* variant: the row number is not offset by the header row
ValidationErrorNoHeaderRow(index) == [type |-> "RowValidation", row |-> index + 1]

ValidationError(index) == [type |-> "RowValidation", row |-> index + 2]

\* variant: a rejected row is left out and the rest is returned
ValidateDataSkipRejected ==
    /\ pc = "validateData"
    /\ \E accepted \in SchemaVerdicts(options.shape, transformedData[idx]) :
          LET out == IF accepted
                     THEN Append(validated,
                                 SchemaOutput(options.shape, transformedData[idx]))
                     ELSE validated
          IN  /\ validated' = out
              /\ error' = error
              /\ IF idx < Len(transformedData)
                 THEN idx' = idx + 1 /\ pc' = pc /\ result' = result
                 ELSE idx' = idx /\ pc' = "done" /\ result' = out
    /\ UNCHANGED <<options, file, jsonData, transformedData>>

\* one iteration of data.map in validateData; the array is returned after
\* the last row
ValidateData ==
    /\ pc = "validateData"
    /\ \E accepted \in SchemaVerdicts(options.shape, transformedData[idx]) :
          IF ~accepted
          THEN /\ Throw(ValidationError(idx - 1))
               /\ UNCHANGED <<idx, validated, result>>
          ELSE LET out == Append(validated,
                                 SchemaOutput(options.shape, transformedData[idx]))
               IN  /\ validated' = out
                   /\ error' = error
                   /\ IF idx < Len(transformedData)
                      THEN idx' = idx + 1 /\ pc' = pc /\ result' = result
                      ELSE idx' = idx /\ pc' = "done" /\ result' = out
    /\ UNCHANGED <<options, file, jsonData, transformedData>>

Next ==
    \/ (\E f \in Files \cup {NoFile} : ParseExcel(f)) /\ UNCHANGED <<wvars, xvars>>
    \/ ReaderOnLoad /\ UNCHANGED <<wvars, xvars>>
    \/ ReaderOnError /\ UNCHANGED <<wvars, xvars>>
    \/ ValidateHeaders /\ UNCHANGED <<wvars, xvars>>
    \/ TransformData /\ UNCHANGED <<wvars, xvars>>
    \/ ValidateData /\ UNCHANGED <<wvars, xvars>>

Spec == Init /\ [][Next]_vars

(***************************************************************************)
(* What the claims speak about.                                            *)
(***************************************************************************)
\* the sheet has been decoded by this call
Decoded == file.present /\ pc \notin {"idle", "reading"} /\ error.type # "ReadError"

\* the header check has been made
HeadersChecked == Decoded /\ pc # "validateHeaders"

\* the entries of fieldMapping whose assignment survives in the assembled
\* record: the last entry of each target field
Surviving ==
    {e \in 1..Len(options.fieldMapping) :
        \A l \in 1..Len(options.fieldMapping) :
            options.fieldMapping[l][2] = options.fieldMapping[e][2] => l <= e}

\* the (row, entry) pairs assembled so far
Assembled == (1..Len(transformedData)) \X Surviving

RawOf(a) == Cell(jsonData[a[1]], options.fieldMapping[a[2]][1])
FieldOf(a) == options.fieldMapping[a[2]][2]
ValueOf(a) == transformedData[a[1]][FieldOf(a)]

HasTransformation(a) == FieldOf(a) \in DOMAIN options.transformations

\* the assembled cells of a kind that no custom transformation handles
Automatic(kind) ==
    {a \in Assembled :
        /\ ~HasTransformation(a)
        /\ FieldOf(a) \in DOMAIN options.shape
        /\ options.shape[FieldOf(a)] = kind}

(***************************************************************************)
(* Header validation.                                                      *)
(***************************************************************************)
\* the positions of the expected headers the first row does not hold
AbsentAt == {i \in 1..Len(options.expectedHeaders) :
                options.expectedHeaders[i] \notin DOMAIN jsonData[1]}

\* the k-th smallest element of a set of positions
Kth(S, k) == CHOOSE i \in S : Cardinality({j \in S : j < i}) = k - 1

\* C1: when the decoded sheet is not empty and its first row lacks an
\* expected header, the call fails with the missing-headers error, which
\* lists exactly the expected headers the first row lacks, in the order
\* expectedHeaders declares them.
C1_MissingHeadersListed ==
    (HeadersChecked /\ Len(jsonData) > 0 /\ AbsentAt # {}) =>
        /\ pc = "failed"
        /\ error.type = "MissingHeaders"
        /\ Len(error.headers) = Cardinality(AbsentAt)
        /\ \A k \in 1..Len(error.headers) :
              error.headers[k] = options.expectedHeaders[Kth(AbsentAt, k)]

\* two expected headers are missing and are listed in declaration order
C1_Witness ==
    /\ pc = "failed"
    /\ error.type = "MissingHeaders"
    /\ options.expectedHeaders = <<"Stock", "Price">>
    /\ error.headers = <<"Stock", "Price">>
    /\ DOMAIN jsonData[1] = {"Name"}

\* C2: a sheet that decodes to zero rows fails with the empty-file error,
\* whatever the configuration; it is never reported as missing headers.
C2_EmptySheetFails ==
    (HeadersChecked /\ Len(file.sheet) = 0) =>
        pc = "failed" /\ error.type = "EmptyFile"

\* an empty sheet under a configuration that expects headers
C2_Witness ==
    /\ HeadersChecked
    /\ Len(file.sheet) = 0
    /\ Len(options.expectedHeaders) > 0
    /\ error.type = "EmptyFile"

(***************************************************************************)
(* Schema validation.                                                      *)
(***************************************************************************)
Verdicts(i) == SchemaVerdicts(options.shape, transformedData[i])

\* C3: a rejected record makes the call fail with a row-validation error
\* whose row number is k+1 for the first rejected data row k: every row
\* before k was accepted, row k was rejected, and a call that returns has
\* no rejected row.
C3_FirstRejectedRow ==
    /\ pc = "done" => \A i \in 1..Len(transformedData) : TRUE \in Verdicts(i)
    /\ error.type = "RowValidation" =>
          LET k == error.row - 1
          IN  /\ pc = "failed"
              /\ k \in 1..Len(transformedData)
              /\ FALSE \in Verdicts(k)
              /\ Len(validated) = k - 1
              /\ \A j \in 1..(k - 1) : TRUE \in Verdicts(j)
    /\ (pc \in {"done", "failed"} /\ Len(transformedData) = Len(jsonData)) =>
          \A i \in 1..Len(transformedData) :
              Verdicts(i) = {FALSE} =>
                  error.type = "RowValidation" /\ error.row <= i + 1

\* two rows are rejected and the first data row is reported, as row 2
C3_Witness ==
    /\ error.type = "RowValidation"
    /\ error.row = 2
    /\ Len(transformedData) = 2
    /\ Verdicts(1) = {FALSE}
    /\ Verdicts(2) = {FALSE}

\* C4: a call either fails and returns no record, or returns one accepted
\* record per decoded row, in the order of the rows.
C4_AllOrNothing ==
    /\ pc # "done" => result = <<>>
    /\ pc = "failed" => error # NoError
    /\ pc = "done" =>
          /\ error = NoError
          /\ Len(result) = Len(jsonData)
          /\ \A i \in 1..Len(jsonData) :
                LET rec == TransformRow(options, jsonData[i])
                IN  /\ ~rec.threw
                    /\ TRUE \in SchemaVerdicts(options.shape, rec.row)
                    /\ result[i] = SchemaOutput(options.shape, rec.row)

\* a call returns the records of two different rows, in order
C4_Witness ==
    /\ pc = "done"
    /\ Len(result) = 2
    /\ result[1] # result[2]

(***************************************************************************)
(* Custom transformations.                                                 *)
(***************************************************************************)
Transformed(a) ==
    ApplyTransformation(options.transformations[FieldOf(a)], RawOf(a))

\* C5: a custom transformation that throws does not fail the call, and the
\* field keeps the raw cell value.
C5_TransformationErrorCaught ==
    /\ error.type # "TransformationThrew"
    /\ \A a \in Assembled :
          (HasTransformation(a) /\ Transformed(a).threw) => ValueOf(a) = RawOf(a)

\* C6: a field with a custom transformation holds exactly the function's
\* result on the raw cell value, whatever its schema kind.
C6_TransformationOverrides ==
    \A a \in Assembled :
        HasTransformation(a) =>
            /\ ~Transformed(a).threw
            /\ ValueOf(a) = Transformed(a).value

\* the function's result is kept where the kind's conversion would have
\* changed it
C6_Witness ==
    \E a \in Assembled :
        /\ HasTransformation(a)
        /\ ValueOf(a) = Transformed(a).value
        /\ FieldOf(a) \in DOMAIN options.shape
        /\ Coerce(options.shape[FieldOf(a)], ValueOf(a)) # ValueOf(a)

(***************************************************************************)
(* Automatic conversion by schema kind.                                    *)
(***************************************************************************)
TenAndAHalf == [t |-> "number", num |-> 105, den |-> 10]

\* every row has been assembled and the call has ended
Ended == pc \in {"done", "failed"} /\ Len(transformedData) = Len(jsonData)

\* C7: a number field without transformation holds null for "" and null,
\* and the numeric parse of any other raw value: NaN for an absent cell
\* and for text that is no number, 10.5 for "10.5".  A NaN is assembled and
\* left to the schema validation, which rejects its row.
C7_NumberCoercion ==
    \A a \in Automatic("number") :
        /\ RawOf(a) \in {Str(<<>>), Null} => ValueOf(a) = Null
        /\ RawOf(a) \notin {Str(<<>>), Null} => ValueOf(a) = ToNumber(RawOf(a))
        /\ RawOf(a) = Undefined => ValueOf(a) = NaN
        /\ RawOf(a) = Str(<<"a", "b", "c">>) => ValueOf(a) = NaN
        /\ RawOf(a) = Str(<<"1", "0", ".", "5">>) => ValueOf(a) = TenAndAHalf
        /\ (ValueOf(a) = NaN /\ Ended) =>
              error.type = "RowValidation" /\ error.row <= a[1] + 1

\* "10.5" became 10.5 in the first row and an absent cell NaN in the second
C7_Witness ==
    /\ Len(transformedData) = 2
    /\ \E a, b \in Automatic("number") :
          /\ a[1] = 1 /\ RawOf(a) = Str(<<"1", "0", ".", "5">>)
          /\ ValueOf(a) = TenAndAHalf
          /\ b[1] = 2 /\ RawOf(b) = Undefined /\ ValueOf(b) = NaN

\* C8: an array field without transformation keeps an array, holds the
\* empty array for null and undefined, and wraps every other raw value,
\* 0, false and "" included, in a one-element array.
C8_ArrayCoercion ==
    \A a \in Automatic("array") :
        ValueOf(a) = IF RawOf(a).t = "array" THEN RawOf(a)
                     ELSE IF RawOf(a) \in {Null, Undefined} THEN Arr(<<>>)
                     ELSE Arr(<<RawOf(a)>>)

\* C9: an optional or nullable field without transformation holds null for
\* an absent cell.
C9_MissingAsNull ==
    \A kind \in {"optional", "nullable"} :
        \A a \in Automatic(kind) :
            RawOf(a) = Undefined =>
                /\ FieldOf(a) \in DOMAIN transformedData[a[1]]
                /\ ValueOf(a) = Null

\* C10: a boolean field without transformation holds a boolean, true
\* exactly for true, "true", "1" and 1; "TRUE", "yes", 2, null and an
\* absent cell give false.
C10_BooleanCoercion ==
    \A a \in Automatic("boolean") :
        /\ ValueOf(a) \in {Bool(TRUE), Bool(FALSE)}
        /\ ValueOf(a) = Bool(TRUE) <=>
              RawOf(a) \in {Bool(TRUE), Str(<<"t", "r", "u", "e">>),
                            Str(<<"1">>), Num(1)}
        /\ RawOf(a) \in {Str(<<"T", "R", "U", "E">>), Str(<<"y", "e", "s">>),
                         Num(2), Null, Undefined} => ValueOf(a) = Bool(FALSE)

\* the text "TRUE" became false
C10_Witness ==
    \E a \in Automatic("boolean") :
        /\ RawOf(a) = Str(<<"T", "R", "U", "E">>)
        /\ ValueOf(a) = Bool(FALSE)

\* C11: a string field without transformation holds "" for null and for an
\* absent cell, and the trimmed text of any other raw value (10.5 gives
\* "10.5", true gives "true", " A " gives "A"); converting the result again
\* changes nothing.
C11_StringCoercion ==
    \A a \in Automatic("string") :
        /\ RawOf(a) \in {Null, Undefined} => ValueOf(a) = Str(<<>>)
        /\ RawOf(a) \notin {Null, Undefined} =>
              ValueOf(a) = Str(Trim(StringOf(RawOf(a))))
        /\ RawOf(a) = TenAndAHalf => ValueOf(a) = Str(<<"1", "0", ".", "5">>)
        /\ RawOf(a) = Bool(TRUE) => ValueOf(a) = Str(<<"t", "r", "u", "e">>)
        /\ RawOf(a) = Str(<<" ", "A", " ">>) => ValueOf(a) = Str(<<"A">>)
        /\ ValueOf(a).t = "string"
        /\ (ValueOf(a).s # <<>>) =>
              ~IsSpace(Head(ValueOf(a).s))
              /\ ~IsSpace(ValueOf(a).s[Len(ValueOf(a).s)])
        /\ CoerceString(ValueOf(a)) = ValueOf(a)

\* the number 10.5 became the text "10.5"
C11_Witness ==
    \E a \in Automatic("string") :
        /\ RawOf(a) = TenAndAHalf
        /\ ValueOf(a) = Str(<<"1", "0", ".", "5">>)

\* C12: an enum field without transformation holds the raw value when it
\* is one of the declared options and null otherwise.
C12_EnumCoercion ==
    \A a \in Automatic("enum") :
        /\ RawOf(a) \in EnumOptions => ValueOf(a) = RawOf(a)
        /\ RawOf(a) \notin EnumOptions => ValueOf(a) = Null
        /\ ValueOf(a) \in EnumOptions \cup {Null}
        /\ RawOf(a) = Str(<<" ", "A", " ">>) => ValueOf(a) = Null

\* a cell that is no option became null
C12_Witness ==
    \E a \in Automatic("enum") :
        /\ RawOf(a) = Str(<<" ", "A", " ">>)
        /\ ValueOf(a) = Null

(***************************************************************************)
(* JsonDownloader (utils/xlsx/excel.parser.ts, second part): generateCSV   *)
(* and generateExcel.  A record is the sequence of its [k, v] entries in   *)
(* insertion order; a key is the sequence of its characters.  No key of    *)
(* the model is an integer index, which JavaScript would order first.      *)
(***************************************************************************)
KeysOf(item) == [i \in 1..Len(item) |-> item[i].k]
ValuesOf(item) == [i \in 1..Len(item) |-> item[i].v]
HasKey(item, key) == \E i \in 1..Len(item) : item[i].k = key
ValueAt(item, key) ==
    IF HasKey(item, key)
    THEN item[CHOOSE i \in 1..Len(item) : item[i].k = key].v
    ELSE Undefined

\* an assignment that leaves the value of an existing key
AssignOnce(item, key, value) ==
    IF HasKey(item, key) THEN item
    ELSE Append(item, [k |-> key, v |-> value])

\* item[key] = value: an existing key keeps its place, a new key is added
\* last
Assign(item, key, value) ==
    IF HasKey(item, key)
    THEN [i \in 1..Len(item) |->
            IF item[i].k = key THEN [k |-> key, v |-> value] ELSE item[i]]
    ELSE Append(item, [k |-> key, v |-> value])

\* delete item[key]
Delete(item, key) ==
    LET Other(e) == e.k # key
    IN  SelectSeq(item, Other)

UpperChar(c) ==
    CASE c = "a" -> "A"
      [] c = "b" -> "B"
      [] c = "d" -> "D"
      [] c = "e" -> "E"
      [] c = "h" -> "H"
      [] c = "i" -> "I"
      [] c = "n" -> "N"
      [] c = "s" -> "S"
      [] OTHER -> c

\* String.prototype.toUpperCase
ToUpperCase(s) == [i \in 1..Len(s) |-> UpperChar(s[i])]

KName == <<"n", "a", "m", "e">>
KAge == <<"a", "g", "e">>
KEmail == <<"e", "m", "a", "i", "l">>
KFullName == <<"F", "u", "l", "l", " ", "N", "a", "m", "e">>
\* a field name of two lines
KTwoLines == <<"l", "\n", "2">>

\* the transformData of the README example
\*   (user) => ({ ...user, name: user.name.toUpperCase() })
\* the record returned, or the TypeError of a name that is no string
ApplyTransformData(fn, item) ==
    CASE fn = "upperName" ->
            IF ValueAt(item, KName).t = "string"
            THEN [threw |-> FALSE,
                  item |-> Assign(item, KName,
                                  Str(ToUpperCase(ValueAt(item, KName).s)))]
            ELSE [threw |-> TRUE, item |-> item]

\* a copy that keeps every column
FilterItemKeepAll(item, excludeColumns) == item

\* { ...item } followed by delete filteredItem[col] for every excluded column
RECURSIVE FilterItem(_, _)
FilterItem(item, excludeColumns) ==
    IF excludeColumns = <<>> THEN item
    ELSE FilterItem(Delete(item, Head(excludeColumns)), Tail(excludeColumns))

\* headerMapping[key] || key
MappedHeader(headerMapping, key) ==
    IF key \in DOMAIN headerMapping /\ headerMapping[key] # <<>>
    THEN headerMapping[key]
    ELSE key

\* Object.entries(item).forEach: mappedItem[mappedHeader] = value, from
\* entry i on
RECURSIVE MapEntries(_, _, _, _)
MapEntries(item, headerMapping, i, mappedItem) ==
    IF i > Len(item) THEN mappedItem
    ELSE MapEntries(item, headerMapping, i + 1,
                    Assign(mappedItem, MappedHeader(headerMapping, item[i].k),
                           item[i].v))

MapItem(item, headerMapping) == MapEntries(item, headerMapping, 1, <<>>)

\* the value as it is, its double quotes not doubled
DoubleQuotesKept(s) == s

\* value.replace(/"/g, '""')
RECURSIVE DoubleQuotes(_)
DoubleQuotes(s) ==
    IF s = <<>> THEN <<>>
    ELSE IF Head(s) = "\"" THEN <<"\"", "\"">> \o DoubleQuotes(Tail(s))
    ELSE <<Head(s)>> \o DoubleQuotes(Tail(s))

\* every value left to Array.prototype.join, a string included
CsvValueBare(value) ==
    IF value.t = "string" THEN value.s
    ELSE IF value \in {Null, Undefined} THEN <<>>
    ELSE StringOf(value)

\* the text of one value in a row line: a string is quoted, any other
\* value is left to Array.prototype.join, which writes null and undefined
\* as nothing
CsvValue(value) ==
    IF value.t = "string" THEN <<"\"">> \o DoubleQuotes(value.s) \o <<"\"">>
    ELSE IF value \in {Null, Undefined} THEN <<>>
    ELSE StringOf(value)

\* Array.prototype.join(separator) of texts
RECURSIVE JoinTexts(_, _)
JoinTexts(texts, separator) ==
    IF texts = <<>> THEN <<>>
    ELSE IF Len(texts) = 1 THEN texts[1]
    ELSE texts[1] \o separator \o JoinTexts(Tail(texts), separator)

\* Object.keys(mappedData[0] || {}).join(delimiter)
CsvHeaders(rows, delimiter) ==
    JoinTexts(IF rows = <<>> THEN <<>> ELSE KeysOf(rows[1]), delimiter)

CsvRow(row, delimiter) ==
    JoinTexts([i \in 1..Len(row) |-> CsvValue(row[i].v)], delimiter)

\* the lines, each ended by a newline
CsvTextNewlineEnded(rows, delimiter) ==
    JoinTexts(<<CsvHeaders(rows, delimiter)>>
                  \o [r \in 1..Len(rows) |-> CsvRow(rows[r], delimiter)],
              <<"\n">>) \o <<"\n">>

\* [headers, ...rows].join("\n")
CsvText(rows, delimiter) ==
    JoinTexts(<<CsvHeaders(rows, delimiter)>>
                  \o [r \in 1..Len(rows) |-> CsvRow(rows[r], delimiter)],
              <<"\n">>)

\* XLSX.utils.json_to_sheet: the columns are the keys in order of first
\* appearance
RECURSIVE SheetColumns(_, _)
SheetColumns(rows, seen) ==
    IF rows = <<>> THEN seen
    ELSE LET New(key) == \A i \in 1..Len(seen) : seen[i] # key
         IN  SheetColumns(Tail(rows), seen \o SelectSeq(KeysOf(Head(rows)), New))

Workbook(rows, sheetName) ==
    [kind |-> "xlsx", sheetName |-> sheetName,
     columns |-> SheetColumns(rows, <<>>), rows |-> rows]

(***************************************************************************)
(* The records and options the writer is called with.                      *)
(***************************************************************************)
Entry(key, value) == [k |-> key, v |-> value]

TextAnn == <<"A", "n", "n">>
TextSaid == <<"H", "e", " ", "s", "a", "i", "d", " ", "\"", "h", "i", "\"">>
TextMail == <<"a", "@", "x", ".", "c", "o", "m">>

Records ==
    {<<Entry(KName, Str(TextAnn)), Entry(KAge, Num(30)),
       Entry(KEmail, Str(TextMail))>>,
     <<Entry(KName, Str(TextSaid)), Entry(KAge, Bool(TRUE))>>,
     <<Entry(KAge, Str(<<"3", ",", "0">>)), Entry(KName, Str(<<"a", "\n", "b">>))>>,
     <<Entry(KEmail, Str(<<"\"">>)), Entry(KName, Str(<<>>))>>,
     <<Entry(KName, Num(5)), Entry(KEmail, Null)>>,
     <<Entry(KTwoLines, Str(<<"x">>))>>}

ExcludeLists == {<<>>, <<KEmail>>, <<KName>>, <<KAge, KEmail>>}

HeaderMappings ==
    {EmptyRecord,
     KName :> KFullName,
     KName :> KEmail,
     KName :> KEmail @@ KEmail :> KName,
     KName :> <<>>,
     KName :> KAge @@ KEmail :> KAge}

Delimiters == {<<",">>, <<";">>}

TransformDataNames == {"upperName"}

\* the options after the defaults of the destructuring are applied
DownloadOptions ==
    [excludeColumns : ExcludeLists, headerMapping : HeaderMappings,
     transformData : {"none"} \cup TransformDataNames, delimiter : Delimiters,
     sheetName : {"Sheet1"}]

DataSets == SeqsUpTo(Records, MaxRecords)

\* the reader is not used by a writer call
ReaderIdle ==
    /\ options = Options(<<>>, <<>>, EmptyRecord, EmptyRecord)
    /\ file = NoFile
    /\ pc = "idle"
    /\ jsonData = <<>>
    /\ idx = 0
    /\ transformedData = <<>>
    /\ validated = <<>>
    /\ result = <<>>
    /\ error = NoError

\* nothing of the package has been called
Idle == ReaderIdle /\ WriterIdle /\ XIdle

WriterInit == Idle

\* the destructuring of the options and the start of data.map(transformData);
\* wcall.data and wcall.options are the caller's objects as they are now,
\* wcall.passed what they held when the call was made
Generate(mode, data, opts) ==
    /\ wpc = "idle"
    /\ wcall' = [made |-> TRUE, mode |-> mode, data |-> data, options |-> opts,
                 passed |-> [data |-> data, options |-> opts]]
    /\ widx' = 1
    /\ IF opts.transformData # "none" /\ Len(data) > 0
       THEN wpc' = "transform" /\ processedData' = <<>>
       ELSE wpc' = "filter" /\ processedData' = data
    /\ UNCHANGED <<transformArgs, filteredData, mappedData, output, werror>>

\* generateCSV(data, options)
GenerateCSV(data, opts) == Generate("csv", data, opts)

\* generateExcel(data, options); it has no delimiter option
GenerateExcel(data, opts) == opts.delimiter = <<",">> /\ Generate("xlsx", data, opts)

\* variant: an exception of transformData is caught and the record kept as
\* it was
TransformRecordCaught ==
    /\ wpc = "transform"
    /\ LET item == wcall.data[widx]
           r == ApplyTransformData(wcall.options.transformData, item)
       IN  /\ transformArgs' = Append(transformArgs, item)
           /\ processedData' = Append(processedData, r.item)
           /\ widx' = IF widx < Len(wcall.data) THEN widx + 1 ELSE widx
           /\ wpc' = IF widx < Len(wcall.data) THEN wpc ELSE "filter"
           /\ werror' = IF r.threw
                        THEN [type |-> "Warned", record |-> widx]
                        ELSE werror
    /\ UNCHANGED <<wcall, filteredData, mappedData, output>>

\* one call of transformData on a record that was filtered first
TransformRecordFiltered ==
    /\ wpc = "transform"
    /\ LET item == FilterItem(wcall.data[widx], wcall.options.excludeColumns)
           r == ApplyTransformData(wcall.options.transformData, item)
       IN  /\ transformArgs' = Append(transformArgs, item)
           /\ IF r.threw
              THEN /\ wpc' = "failed"
                   /\ werror' = [type |-> "TransformDataThrew", record |-> widx]
                   /\ UNCHANGED <<widx, processedData>>
              ELSE /\ processedData' = Append(processedData, r.item)
                   /\ widx' = IF widx < Len(wcall.data) THEN widx + 1 ELSE widx
                   /\ wpc' = IF widx < Len(wcall.data) THEN wpc ELSE "filter"
                   /\ werror' = werror
    /\ UNCHANGED <<wcall, filteredData, mappedData, output>>

\* one call of transformData by data.map; its exception leaves the call
TransformRecord ==
    /\ wpc = "transform"
    /\ LET item == wcall.data[widx]
           r == ApplyTransformData(wcall.options.transformData, item)
       IN  /\ transformArgs' = Append(transformArgs, item)
           /\ IF r.threw
              THEN /\ wpc' = "failed"
                   /\ werror' = [type |-> "TransformDataThrew", record |-> widx]
                   /\ UNCHANGED <<widx, processedData>>
              ELSE /\ processedData' = Append(processedData, r.item)
                   /\ widx' = IF widx < Len(wcall.data) THEN widx + 1 ELSE widx
                   /\ wpc' = IF widx < Len(wcall.data) THEN wpc ELSE "filter"
                   /\ werror' = werror
    /\ UNCHANGED <<wcall, filteredData, mappedData, output>>

\* variant: the excluded columns are deleted from the item itself, which
\* without transformData is the caller's record
FilterColumnsInPlace ==
    /\ wpc = "filter"
    /\ LET filtered == [r \in 1..Len(processedData) |->
                           FilterItem(processedData[r], wcall.options.excludeColumns)]
       IN  /\ filteredData' = filtered
           /\ processedData' = filtered
           /\ wcall' = IF wcall.options.transformData = "none"
                       THEN [wcall EXCEPT !.data = filtered]
                       ELSE wcall
    /\ wpc' = "map"
    /\ UNCHANGED <<widx, transformArgs, mappedData, output, werror>>

\* processedData.map: the copy without the excluded columns
FilterColumns ==
    /\ wpc = "filter"
    /\ filteredData' = [r \in 1..Len(processedData) |->
                           FilterItem(processedData[r], wcall.options.excludeColumns)]
    /\ wpc' = "map"
    /\ UNCHANGED <<wcall, widx, transformArgs, processedData, mappedData, output,
                   werror>>

\* filteredData.map: the records under their mapped headers
MapHeaders ==
    /\ wpc = "map"
    /\ mappedData' = [r \in 1..Len(filteredData) |->
                         MapItem(filteredData[r], wcall.options.headerMapping)]
    /\ wpc' = "serialize"
    /\ UNCHANGED <<wcall, widx, transformArgs, processedData, filteredData, output,
                   werror>>

\* Object.keys(mappedData[0]) without the fallback to {}: a TypeError when
\* there is no row
SerializeFirstRow ==
    /\ wpc = "serialize"
    /\ IF mappedData = <<>>
       THEN /\ wpc' = "failed"
            /\ werror' = [type |-> "TypeError", record |-> 0]
            /\ output' = output
       ELSE /\ output' = IF wcall.mode = "csv"
                         THEN [kind |-> "csv",
                               text |-> CsvText(mappedData, wcall.options.delimiter)]
                         ELSE Workbook(mappedData, wcall.options.sheetName)
            /\ wpc' = "done"
            /\ werror' = werror
    /\ UNCHANGED <<wcall, widx, transformArgs, processedData, filteredData,
                   mappedData>>

\* the text of generateCSV, the workbook of generateExcel
Serialize ==
    /\ wpc = "serialize"
    /\ output' = IF wcall.mode = "csv"
                 THEN [kind |-> "csv",
                       text |-> CsvText(mappedData, wcall.options.delimiter)]
                 ELSE Workbook(mappedData, wcall.options.sheetName)
    /\ wpc' = "done"
    /\ UNCHANGED <<wcall, widx, transformArgs, processedData, filteredData,
                   mappedData, werror>>

WriterNext ==
    \/ /\ wpc = "idle"
       /\ \E data \in DataSets, opts \in DownloadOptions : GenerateCSV(data, opts)
       /\ UNCHANGED <<rvars, xvars>>
    \/ /\ wpc = "idle"
       /\ \E data \in DataSets, opts \in DownloadOptions : GenerateExcel(data, opts)
       /\ UNCHANGED <<rvars, xvars>>
    \/ TransformRecord /\ UNCHANGED <<rvars, xvars>>
    \/ FilterColumns /\ UNCHANGED <<rvars, xvars>>
    \/ MapHeaders /\ UNCHANGED <<rvars, xvars>>
    \/ Serialize /\ UNCHANGED <<rvars, xvars>>

WriterSpec == WriterInit /\ [][WriterNext]_vars

(***************************************************************************)
(* Vocabulary of the writer claims.                                        *)
(***************************************************************************)
\* the call has shaped its rows: exclusion and renaming are done
Shaped == wpc \in {"serialize", "done"}

\* the names in excludeColumns
Excluded ==
    {wcall.options.excludeColumns[i] : i \in 1..Len(wcall.options.excludeColumns)}

\* C13 as stated: no shaped output row has a key equal to a name in
\* excludeColumns, also when headerMapping renames another field to an
\* excluded name.
C13_NoExcludedKey ==
    Shaped => \A r \in 1..Len(mappedData) :
                 \A c \in Excluded : ~HasKey(mappedData[r], c)

\* C13: after exclusion no row holds a field named in excludeColumns, and
\* every entry of a shaped output row is the value of a field that is not
\* named in excludeColumns, under that field's mapped header; an excluded
\* name is an output key only as the header another field is renamed to.
C13_ExcludedFieldsDropped ==
    Shaped =>
        \A r \in 1..Len(mappedData) :
            /\ \A c \in Excluded : ~HasKey(filteredData[r], c)
            /\ \A i \in 1..Len(mappedData[r]) :
                  \E j \in 1..Len(processedData[r]) :
                     /\ processedData[r][j].k \notin Excluded
                     /\ MappedHeader(wcall.options.headerMapping,
                                     processedData[r][j].k) = mappedData[r][i].k
                     /\ processedData[r][j].v = mappedData[r][i].v
            /\ \A c \in Excluded :
                  HasKey(mappedData[r], c) =>
                      \E j \in 1..Len(processedData[r]) :
                         /\ processedData[r][j].k # c
                         /\ processedData[r][j].k \in DOMAIN wcall.options.headerMapping
                         /\ wcall.options.headerMapping[processedData[r][j].k] = c

\* email is excluded and name is renamed to email: the output row has the
\* key email, holding the name
C13_Witness ==
    /\ Shaped
    /\ wcall.options.excludeColumns = <<KEmail>>
    /\ wcall.options.headerMapping = KName :> KEmail
    /\ Len(mappedData) >= 1
    /\ HasKey(processedData[1], KEmail)
    /\ ~HasKey(filteredData[1], KEmail)
    /\ mappedData[1] = <<Entry(KEmail, Str(TextAnn)), Entry(KAge, Num(30))>>

\* C14: every field that survives exclusion appears in the shaped output
\* row under its original name when headerMapping has no entry for it, and
\* under headerMapping[name] when it has one, whatever the label (the empty
\* string included); the new label is not looked up in headerMapping again.
C14_RenamingTotalAndLocal ==
    Shaped =>
        \A r \in 1..Len(mappedData) :
            \A j \in 1..Len(filteredData[r]) :
                LET name == filteredData[r][j].k
                    headerMapping == wcall.options.headerMapping
                IN  /\ name \notin DOMAIN headerMapping
                          => HasKey(mappedData[r], name)
                    /\ name \in DOMAIN headerMapping
                          => HasKey(mappedData[r], headerMapping[name])

\* transformData is configured for the call
Transforming == wcall.made /\ wcall.options.transformData # "none"

\* C15: with transformData configured, every call of it receives an input
\* record as it was passed in (excluded fields present, names not renamed),
\* in order; no row is filtered or renamed before the last call returned;
\* exclusion and renaming then act on the records transformData returned.
C15_TransformSeesOriginal ==
    Transforming =>
        /\ Len(transformArgs) <= Len(wcall.data)
        /\ \A i \in 1..Len(transformArgs) : transformArgs[i] = wcall.data[i]
        /\ wpc \in {"transform", "failed"} => filteredData = <<>> /\ mappedData = <<>>
        /\ wpc \in {"filter", "map", "serialize", "done"} =>
              /\ Len(transformArgs) = Len(wcall.data)
              /\ \A r \in 1..Len(wcall.data) :
                    processedData[r] =
                        ApplyTransformData(wcall.options.transformData,
                                           wcall.data[r]).item
        /\ Shaped =>
              /\ Len(mappedData) = Len(wcall.data)
              /\ \A r \in 1..Len(mappedData) :
                    \A i \in 1..Len(mappedData[r]) :
                       \E j \in 1..Len(processedData[r]) :
                          /\ processedData[r][j].k \notin Excluded
                          /\ MappedHeader(wcall.options.headerMapping,
                                          processedData[r][j].k) = mappedData[r][i].k
                          /\ processedData[r][j].v = mappedData[r][i].v

\* transformData received the record with its email field and its name
\* field; the output row has no email and holds the upper-cased name under
\* the new header
C15_Witness ==
    /\ Transforming
    /\ Shaped
    /\ wcall.options.excludeColumns = <<KEmail>>
    /\ wcall.options.headerMapping = KName :> KFullName
    /\ Len(transformArgs) >= 1
    /\ HasKey(transformArgs[1], KEmail)
    /\ ValueAt(transformArgs[1], KName) = Str(TextAnn)
    /\ mappedData[1] = <<Entry(KFullName, Str(<<"A", "N", "N">>)), Entry(KAge, Num(30))>>

\* generateCSV returned its text
CsvDone == wpc = "done" /\ wcall.mode = "csv"

\* the number of double quotes in a text
RECURSIVE QuoteCount(_)
QuoteCount(s) ==
    IF s = <<>> THEN 0
    ELSE (IF Head(s) = "\"" THEN 1 ELSE 0) + QuoteCount(Tail(s))

\* the text with every pair of double quotes read as one
RECURSIVE Undoubled(_)
Undoubled(s) ==
    IF Len(s) >= 2 /\ s[1] = "\"" /\ s[2] = "\"" THEN <<"\"">> \o Undoubled(Tail(Tail(s)))
    ELSE IF s = <<>> THEN <<>>
    ELSE <<Head(s)>> \o Undoubled(Tail(s))

\* C16: in the text of generateCSV a string value stands between two double
\* quotes with each of its own double quotes doubled, and a number or a
\* boolean stands as its bare text without quotes; He said "hi" is written
\* "He said ""hi""".
C16_StringsQuoted ==
    CsvDone =>
        /\ \A r \in 1..Len(mappedData) :
              \A i \in 1..Len(mappedData[r]) :
                 LET value == mappedData[r][i].v
                     text == CsvValue(value)
                     inner == SubSeq(text, 2, Len(text) - 1)
                 IN  /\ value.t = "string" =>
                           /\ Len(text) >= 2
                           /\ text[1] = "\"" /\ text[Len(text)] = "\""
                           /\ QuoteCount(inner) = 2 * QuoteCount(value.s)
                           /\ Len(inner) = Len(value.s) + QuoteCount(value.s)
                           /\ Undoubled(inner) = value.s
                     /\ value.t \in {"number", "boolean"} =>
                           /\ text = StringOf(value)
                           /\ QuoteCount(text) = 0
                     /\ value = Str(TextSaid) =>
                           text = <<"\"", "H", "e", " ", "s", "a", "i", "d", " ",
                                    "\"", "\"", "h", "i", "\"", "\"", "\"">>
        /\ Len(mappedData) = 1 =>
              output.text =
                  CsvHeaders(mappedData, wcall.options.delimiter) \o <<"\n">>
                      \o JoinTexts([i \in 1..Len(mappedData[1]) |->
                                       CsvValue(mappedData[1][i].v)],
                                   wcall.options.delimiter)

\* the row {name: 'He said "hi"', age: true} is written with the name
\* quoted and the boolean bare
C16_Witness ==
    /\ CsvDone
    /\ wcall.options.delimiter = <<",">>
    /\ mappedData = <<<<Entry(KName, Str(TextSaid)), Entry(KAge, Bool(TRUE))>>>>
    /\ output.text = <<"n", "a", "m", "e", ",", "a", "g", "e", "\n",
                       "\"", "H", "e", " ", "s", "a", "i", "d", " ",
                       "\"", "\"", "h", "i", "\"", "\"", "\"", ",",
                       "t", "r", "u", "e">>

\* the lines one after the other, each after the first preceded by one
\* newline
RECURSIVE Stacked(_)
Stacked(lines) ==
    IF Len(lines) = 1 THEN lines[1]
    ELSE Stacked(SubSeq(lines, 1, Len(lines) - 1)) \o <<"\n">> \o lines[Len(lines)]

\* texts[1], delimiter, texts[2], ..., nothing after the last
RECURSIVE Delimited(_, _)
Delimited(texts, delimiter) ==
    IF texts = <<>> THEN <<>>
    ELSE IF Len(texts) = 1 THEN texts[1]
    ELSE Delimited(SubSeq(texts, 1, Len(texts) - 1), delimiter)
             \o delimiter \o texts[Len(texts)]

\* C17: for one row or more the text of generateCSV is the header line (the
\* keys of the first shaped row in insertion order, joined by the
\* delimiter), then one line per row with the row's own values in its own
\* key order joined by the delimiter, the lines separated by one newline
\* and nothing after the last line; [{name:"Ann", age:30, email:"a@x.com"}]
\* with excludeColumns ["email"], headerMapping {name:"Full Name"} and
\* delimiter "," gives Full Name,age and "Ann",30.
C17_HeaderThenRows ==
    (CsvDone /\ Len(wcall.data) >= 1) =>
        LET delimiter == wcall.options.delimiter
            header == Delimited(KeysOf(mappedData[1]), delimiter)
            line(r) == Delimited([i \in 1..Len(mappedData[r]) |->
                                     CsvValue(ValuesOf(mappedData[r])[i])],
                                 delimiter)
            lines == <<header>> \o [r \in 1..Len(mappedData) |-> line(r)]
        IN  /\ Len(mappedData) = Len(wcall.data)
            /\ output.text = Stacked(lines)
            /\ Len(output.text) =
                   Len(header) + Len(mappedData)
                       + Len(Stacked([r \in 1..Len(mappedData) |-> line(r)]))
                       - (Len(mappedData) - 1)
            /\ LET last == line(Len(mappedData))
                   n == Len(output.text)
               IN  /\ SubSeq(output.text, n - Len(last) + 1, n) = last
                   /\ output.text[n - Len(last)] = "\n"
                   /\ last # <<>> => output.text[n] # "\n"
            /\ (/\ wcall.data = <<<<Entry(KName, Str(TextAnn)), Entry(KAge, Num(30)),
                                    Entry(KEmail, Str(TextMail))>>>>
                /\ wcall.options.excludeColumns = <<KEmail>>
                /\ wcall.options.headerMapping = KName :> KFullName
                /\ wcall.options.transformData = "none"
                /\ delimiter = <<",">>)
                  => output.text = <<"F", "u", "l", "l", " ", "N", "a", "m", "e",
                                     ",", "a", "g", "e", "\n",
                                     "\"", "A", "n", "n", "\"", ",", "3", "0">>

\* two rows of different key order under the header of the first
C17_Witness ==
    /\ CsvDone
    /\ wcall.options.delimiter = <<";">>
    /\ Len(mappedData) = 2
    /\ KeysOf(mappedData[1]) = <<KFullName, KAge>>
    /\ KeysOf(mappedData[2]) = <<KAge, KFullName>>
    /\ output.text = <<"F", "u", "l", "l", " ", "N", "a", "m", "e", ";", "a", "g", "e",
                       "\n", "\"", "A", "n", "n", "\"", ";", "3", "0",
                       "\n", "\"", "3", ",", "0", "\"", ";", "\"", "a", "\n", "b", "\"">>

\* C18: generateCSV called with no rows raises nothing and returns a text
\* whose header line is the empty string, whatever excludeColumns,
\* headerMapping, delimiter and transformData are; transformData is not
\* called.
C18_ZeroRows ==
    (wcall.made /\ wcall.mode = "csv" /\ wcall.data = <<>>) =>
        /\ wpc # "failed"
        /\ werror.type = "none"
        /\ transformArgs = <<>>
        /\ wpc = "done" => output = [kind |-> "csv", text |-> <<>>]

\* a call with no rows, with transformData, an exclusion and a renaming,
\* has returned the empty text
C18_Witness ==
    /\ CsvDone
    /\ wcall.data = <<>>
    /\ wcall.options.transformData = "upperName"
    /\ wcall.options.excludeColumns = <<KAge, KEmail>>
    /\ wcall.options.headerMapping = KName :> KFullName
    /\ wcall.options.delimiter = <<";">>
    /\ output.text = <<>>

\* A CSV parser after RFC 4180 for a one-character delimiter: the records of
\* text from character i on.  A field that starts with a double quote runs
\* to its closing quote, a doubled quote inside it standing for one quote;
\* delimiters and newlines inside it belong to the field.  A newline
\* outside quotes ends a record.
RECURSIVE ParseFrom(_, _, _, _, _, _, _)
ParseFrom(text, i, delimiter, quoted, field, record, records) ==
    IF i > Len(text) THEN Append(records, Append(record, field))
    ELSE IF quoted
    THEN IF text[i] = "\""
         THEN IF i < Len(text) /\ text[i + 1] = "\""
              THEN ParseFrom(text, i + 2, delimiter, TRUE, Append(field, "\""),
                             record, records)
              ELSE ParseFrom(text, i + 1, delimiter, FALSE, field, record, records)
         ELSE ParseFrom(text, i + 1, delimiter, TRUE, Append(field, text[i]),
                        record, records)
    ELSE IF text[i] = "\"" /\ field = <<>>
    THEN ParseFrom(text, i + 1, delimiter, TRUE, field, record, records)
    ELSE IF text[i] = delimiter
    THEN ParseFrom(text, i + 1, delimiter, FALSE, <<>>, Append(record, field),
                   records)
    ELSE IF text[i] = "\n"
    THEN ParseFrom(text, i + 1, delimiter, FALSE, <<>>, <<>>,
                   Append(records, Append(record, field)))
    ELSE ParseFrom(text, i + 1, delimiter, FALSE, Append(field, text[i]), record,
                   records)

ParseCSV(text, delimiter) == ParseFrom(text, 1, delimiter[1], FALSE, <<>>, <<>>, <<>>)

\* every value of every shaped row is a string
AllStrings ==
    \A r \in 1..Len(mappedData) :
        \A i \in 1..Len(mappedData[r]) : mappedData[r][i].v.t = "string"

\* the values of shaped row r, as texts
TextsOf(r) == [i \in 1..Len(mappedData[r]) |-> mappedData[r][i].v.s]

\* C19 as stated: when every value of the rows is a string, parsing the
\* text of generateCSV as CSV gives, after the header record, row by row
\* and in order exactly the values of the rows.
C19_RoundTrip ==
    (CsvDone /\ AllStrings /\ Len(mappedData) >= 1) =>
        LET parsed == Tail(ParseCSV(output.text, wcall.options.delimiter))
        IN  /\ Len(parsed) = Len(mappedData)
            /\ \A r \in 1..Len(mappedData) : parsed[r] = TextsOf(r)

\* the header line is one line of unquoted fields, and no row is empty
PlainHeader ==
    /\ \A i \in 1..Len(mappedData[1]) :
          \A c \in 1..Len(mappedData[1][i].k) :
             mappedData[1][i].k[c] \notin {"\"", "\n"}
    /\ \A r \in 1..Len(mappedData) : mappedData[r] # <<>>

\* C19: when every value of the rows is a string, no row is empty and no
\* header of the first row holds a double quote or a newline, parsing the
\* text of generateCSV as CSV gives, after the header record, row by row
\* and in order exactly the values of the rows, also for values holding
\* the delimiter, double quotes or newlines.
C19_RoundTripPlainHeader ==
    (CsvDone /\ AllStrings /\ Len(mappedData) >= 1 /\ PlainHeader) =>
        LET parsed == Tail(ParseCSV(output.text, wcall.options.delimiter))
        IN  /\ Len(parsed) = Len(mappedData)
            /\ \A r \in 1..Len(mappedData) : parsed[r] = TextsOf(r)

\* two all-string rows, holding the delimiter, a newline, a double quote
\* and the empty string, were written and read back
C19_Witness ==
    /\ CsvDone
    /\ AllStrings
    /\ wcall.options.delimiter = <<",">>
    /\ wcall.options.transformData = "none"
    /\ wcall.options.excludeColumns = <<>>
    /\ wcall.data = <<<<Entry(KAge, Str(<<"3", ",", "0">>)),
                        Entry(KName, Str(<<"a", "\n", "b">>))>>,
                      <<Entry(KEmail, Str(<<"\"">>)), Entry(KName, Str(<<>>))>>>>
    /\ mappedData = wcall.data
    /\ ParseCSV(output.text, <<",">>) =
           << <<KAge, KName>>, << <<"3", ",", "0">>, <<"a", "\n", "b">> >>,
              << <<"\"">>, <<>> >> >>

\* the fields of filtered row r whose header is key, in insertion order
Sources(r, key) ==
    {j \in 1..Len(filteredData[r]) :
        MappedHeader(wcall.options.headerMapping, filteredData[r][j].k) = key}

\* C20: when two fields of a row that survive exclusion get the same output
\* header, the shaped row has one entry for that header, holding the value
\* of the field that is later in the row's insertion order; the renaming
\* raises no error.
C20_LaterFieldWins ==
    Shaped =>
        /\ Len(mappedData) = Len(filteredData)
        /\ werror.type = "none"
        /\ \A r \in 1..Len(mappedData) :
              /\ \A i, k \in 1..Len(mappedData[r]) :
                    mappedData[r][i].k = mappedData[r][k].k => i = k
              /\ \A j \in 1..Len(filteredData[r]) :
                    LET key == MappedHeader(wcall.options.headerMapping,
                                            filteredData[r][j].k)
                        last == CHOOSE m \in Sources(r, key) :
                                    \A n \in Sources(r, key) : n <= m
                    IN  /\ HasKey(mappedData[r], key)
                        /\ ValueAt(mappedData[r], key) = filteredData[r][last].v

\* name and email are both renamed to age, and age is kept: the row has
\* the one entry age, holding the value of email, the last of the three
C20_Witness ==
    /\ Shaped
    /\ wcall.options.headerMapping = KName :> KAge @@ KEmail :> KAge
    /\ Len(filteredData) >= 1
    /\ filteredData[1] = <<Entry(KName, Str(TextAnn)), Entry(KAge, Num(30)),
                           Entry(KEmail, Str(TextMail))>>
    /\ Cardinality(Sources(1, KAge)) = 3
    /\ mappedData[1] = <<Entry(KAge, Str(TextMail))>>

\* C25: when the sheet is empty or an expected header is missing, the call
\* fails before any row is processed: no record has been assembled (so no
\* transformation ran), the schema has validated nothing, and the row
\* counter was never started.
C25_NoPartialProcessing ==
    error.type \in {"EmptyFile", "MissingHeaders"} =>
        /\ pc = "failed"
        /\ transformedData = <<>>
        /\ validated = <<>>
        /\ result = <<>>
        /\ idx = 0

\* a header is missing from a sheet whose first row a transformation could
\* have processed, and nothing was processed
C25_Witness ==
    /\ error.type = "MissingHeaders"
    /\ Len(jsonData) = 2
    /\ "name" \in DOMAIN options.transformations
    /\ Len(options.fieldMapping) >= 1
    /\ "Name" \in DOMAIN jsonData[1]
    /\ transformedData = <<>>
    /\ validated = <<>>

\* the schema rejects the assembled record of row i
Rejected(i) == SchemaVerdicts(options.shape, transformedData[i]) = {FALSE}

\* C28: every row is transformed before the schema validates any row: no
\* row is validated while rows remain to be transformed, and when a custom
\* transformation throws on row j the call fails with that exception, no
\* row-validation error being raised for an earlier row the schema would
\* reject.
C28_TransformBeforeValidate ==
    /\ pc = "transformData" => validated = <<>> /\ error = NoError
    /\ pc \in {"validateData", "done"} => Len(transformedData) = Len(jsonData)
    /\ error.type = "RowValidation" => Len(transformedData) = Len(jsonData)
    /\ error.type = "TransformationThrew" =>
          /\ pc = "failed"
          /\ validated = <<>>
          /\ Len(transformedData) = error.row - 1
          /\ error.field \in DOMAIN options.transformations

\* the transformation threw on row 2 while row 1, already assembled, is one
\* the schema rejects
C28_Witness ==
    /\ error.type = "TransformationThrew"
    /\ error.row = 2
    /\ Len(transformedData) = 1
    /\ Rejected(1)
    /\ validated = <<>>

\* the internal field names that fieldMapping maps to
TargetFields == {options.fieldMapping[e][2] : e \in 1..Len(options.fieldMapping)}

\* C29: every assembled record has exactly the target fields of
\* fieldMapping as its keys, whatever columns the raw row has; a mapped
\* header absent from the row gives the coerced undefined value; when two
\* headers map to one field the record holds the value from the later one.
C29_AssembledKeys ==
    \A i \in 1..Len(transformedData) :
        /\ DOMAIN transformedData[i] = TargetFields
        /\ \A e \in Surviving :
              LET header == options.fieldMapping[e][1]
                  field == options.fieldMapping[e][2]
                  value == transformedData[i][field]
              IN  /\ (header \notin DOMAIN jsonData[i]
                         /\ field \notin DOMAIN options.transformations
                         /\ field \in DOMAIN options.shape)
                        => value = Coerce(options.shape[field], Undefined)
                  /\ (header \notin DOMAIN jsonData[i]
                         /\ field \notin DOMAIN options.transformations
                         /\ field \notin DOMAIN options.shape)
                        => value = Undefined
                  /\ (header \in DOMAIN jsonData[i]
                         /\ field \notin DOMAIN options.transformations
                         /\ field \in DOMAIN options.shape)
                        => value = Coerce(options.shape[field], jsonData[i][header])

\* Name and Price both map to name, the row has both columns and a column
\* count of two, and the record has the one key name, holding the price
C29_Witness ==
    /\ options.fieldMapping = <<<<"Name", "name">>, <<"Price", "name">>>>
    /\ options.transformations = EmptyRecord
    /\ Len(transformedData) >= 1
    /\ DOMAIN jsonData[1] = {"Name", "Price"}
    /\ DOMAIN transformedData[1] = {"name"}
    /\ transformedData[1]["name"] = Str(<<"1", "0", ".", "5">>)

\* C22: when transformData throws on a record, the call of generateCSV or
\* generateExcel ends with that exception: it returns nothing, transformData
\* is not called on the records after it, and no record is filtered,
\* renamed or serialized.
C22_TransformErrorPropagates ==
    /\ werror.type # "none" =>
          /\ wpc = "failed"
          /\ werror.type = "TransformDataThrew"
          /\ output = [kind |-> "none"]
          /\ Len(transformArgs) = werror.record
          /\ Len(processedData) = werror.record - 1
          /\ ApplyTransformData(wcall.options.transformData,
                                wcall.data[werror.record]).threw
          /\ filteredData = <<>>
          /\ mappedData = <<>>
    /\ (Transforming /\ wpc \in {"filter", "map", "serialize", "done"}) =>
          \A r \in 1..Len(wcall.data) :
             ~ApplyTransformData(wcall.options.transformData, wcall.data[r]).threw

\* transformData threw on the first of two records of a generateExcel call:
\* the second was not transformed and nothing was returned
C22_Witness ==
    /\ wpc = "failed"
    /\ wcall.mode = "xlsx"
    /\ Len(wcall.data) = 2
    /\ werror = [type |-> "TransformDataThrew", record |-> 1]
    /\ transformArgs = <<wcall.data[1]>>
    /\ output = [kind |-> "none"]

\* C23: the writer leaves its input as it was: during and after a call of
\* generateCSV or generateExcel every input record has the keys and values
\* it was passed with, and the options are unchanged (transformData being
\* one that returns a new record).
C23_InputNotMutated ==
    wcall.made =>
        /\ wcall.data = wcall.passed.data
        /\ wcall.options = wcall.passed.options
        /\ \A r \in 1..Len(wcall.data) :
              /\ KeysOf(wcall.data[r]) = KeysOf(wcall.passed.data[r])
              /\ ValuesOf(wcall.data[r]) = ValuesOf(wcall.passed.data[r])

\* a call without transformData, whose rows are the caller's own records,
\* has dropped email and renamed name in its output while the caller's
\* record still has both under their names
C23_Witness ==
    /\ wpc = "done"
    /\ wcall.options.transformData = "none"
    /\ wcall.options.excludeColumns = <<KEmail>>
    /\ wcall.options.headerMapping = KName :> KFullName
    /\ Len(wcall.data) >= 1
    /\ processedData = wcall.data
    /\ KeysOf(wcall.data[1]) = <<KName, KAge, KEmail>>
    /\ KeysOf(mappedData[1]) = <<KFullName, KAge>>

(***************************************************************************)
(* AES (utils/aes.ts, the crypto-js class): encrypt and decrypt.  A text   *)
(* is [kind |-> "text", s], a ciphertext [kind |-> "cipher", s, key, iv];  *)
(* SHA-512 and the cipher are not computed, only named.                    *)
(***************************************************************************)
Plain(s) == [kind |-> "text", s |-> s]

\* CryptoJS.SHA512(secret).toString().substring(0, length)
GenerateSecret(secret, length) == [sha512 |-> secret, length |-> length]

\* CryptoJS.AES.encrypt(data, key, { iv, mode: CBC, padding: Pkcs7 })
Encrypted(s, config) ==
    [kind |-> "cipher", s |-> s, key |-> GenerateSecret(config.secretKey, 32),
     iv |-> GenerateSecret(config.secretIV, 16)]

ValidMethods == {"aes-256-cbc", "aes-128-cbc", "aes-256-ecb"}

\* AESConfig, with and without the optional encryptionMethod
AesConfigs ==
    [secretKey : {"testSecretKey", "otherKey"}, secretIV : {"testSecretIV"}]
        \cup [secretKey : {"testSecretKey", "otherKey"}, secretIV : {"testSecretIV"},
              encryptionMethod : ValidMethods \cup {"", "invalid-method"}]

AesTexts == {Plain(""), Plain("Sensitive Data"), Plain("invalidEncryptedData")}

AesData ==
    AesTexts \cup {Encrypted("Sensitive Data", c) : c \in AesConfigs}

\* AES.encrypt(data, config) or AES.decrypt(encryptedData, config) is called
AesCall(fn, data, config) ==
    /\ upc = "idle"
    /\ ucall' = [made |-> TRUE, fn |-> fn, data |-> data, config |-> config]
    /\ upc' = "checkData"
    /\ uout' = uout

AesThrow(prefix, detail) ==
    /\ upc' = "failed"
    /\ uout' = [kind |-> "error", prefix |-> prefix, detail |-> detail]

\* if (!data) throw
AesCheckData ==
    /\ upc = "checkData"
    /\ IF ucall.data = Plain("")
       THEN AesThrow("", IF ucall.fn = "encrypt"
                         THEN "Data to encrypt cannot be empty"
                         ELSE "Encrypted data cannot be empty")
       ELSE upc' = "checkMethod" /\ uout' = uout
    /\ ucall' = ucall

\* variant: any encryptionMethod is accepted
AesCheckMethodNone ==
    /\ upc = "checkMethod"
    /\ upc' = "cipher"
    /\ UNCHANGED <<ucall, uout>>

\* if (config.encryptionMethod && !validMethods.includes(...)) throw
AesCheckMethod ==
    /\ upc = "checkMethod"
    /\ IF /\ "encryptionMethod" \in DOMAIN ucall.config
          /\ ucall.config.encryptionMethod # ""
          /\ ucall.config.encryptionMethod \notin ValidMethods
       THEN AesThrow(IF ucall.fn = "encrypt" THEN "Encryption failed:"
                     ELSE "Decryption failed:",
                     "Invalid encryption method")
       ELSE upc' = "cipher" /\ uout' = uout
    /\ ucall' = ucall

\* the try block: the cipher always runs in CBC mode; decrypting what was
\* not encrypted under the same key and IV gives bytes that are no UTF-8
\* (an exception, rethrown as "Decryption failed:") or the empty text
AesCipher ==
    /\ upc = "cipher"
    /\ IF ucall.fn = "encrypt"
       THEN /\ upc' = "done"
            /\ uout' = [kind |-> "value",
                        value |-> Encrypted(ucall.data.s, ucall.config)]
       ELSE IF ucall.data = Encrypted(ucall.data.s, ucall.config)
       THEN /\ upc' = "done"
            /\ uout' = [kind |-> "value", value |-> Plain(ucall.data.s)]
       ELSE \/ upc' = "done" /\ uout' = [kind |-> "value", value |-> Plain("")]
            \/ AesThrow("Decryption failed:", "Malformed UTF-8 data")
    /\ ucall' = ucall

AesNext ==
    \/ /\ \E data \in AesTexts, config \in AesConfigs :
             AesCall("encrypt", data, config)
       /\ UNCHANGED <<rvars, wvars, lconfig, lenv, lqueue, lout, calls, trip>>
    \/ /\ \E data \in AesData, config \in AesConfigs :
             AesCall("decrypt", data, config)
       /\ UNCHANGED <<rvars, wvars, lconfig, lenv, lqueue, lout, calls, trip>>
    \/ AesCheckData
          /\ UNCHANGED <<rvars, wvars, lconfig, lenv, lqueue, lout, calls, trip>>
    \/ AesCheckMethod
          /\ UNCHANGED <<rvars, wvars, lconfig, lenv, lqueue, lout, calls, trip>>
    \/ AesCipher
          /\ UNCHANGED <<rvars, wvars, lconfig, lenv, lqueue, lout, calls, trip>>

AesSpec == Idle /\ [][AesNext]_vars

\* the AES call has ended
AesEnded == ucall.made /\ ucall.fn \in {"encrypt", "decrypt"} /\ upc \in {"done", "failed"}

\* the error of empty data, by method
EmptyDataError ==
    [kind |-> "error", prefix |-> "",
     detail |-> IF ucall.fn = "encrypt" THEN "Data to encrypt cannot be empty"
                ELSE "Encrypted data cannot be empty"]

\* C26 as stated: empty data is rejected with the empty-data message, also
\* when the method is invalid, and every encryptionMethod outside the
\* supported set is rejected with "Encryption failed:" / "Decryption
\* failed:"; a rejected call returns nothing.
C26_InvalidInputRejected ==
    AesEnded =>
        /\ ucall.data = Plain("") => upc = "failed" /\ uout = EmptyDataError
        /\ (/\ ucall.data # Plain("")
            /\ "encryptionMethod" \in DOMAIN ucall.config
            /\ ucall.config.encryptionMethod \notin ValidMethods)
              => /\ upc = "failed"
                 /\ uout.kind = "error"
                 /\ uout.prefix = IF ucall.fn = "encrypt" THEN "Encryption failed:"
                                  ELSE "Decryption failed:"

\* C26: empty data is rejected with the empty-data message, also when the
\* method is invalid, and every non-empty encryptionMethod outside the
\* supported set is rejected with "Encryption failed:" / "Decryption
\* failed:"; a rejected call returns nothing; an encryptionMethod that is
\* the empty string is taken as not given.
C26_InvalidInputRejectedNonEmpty ==
    AesEnded =>
        /\ ucall.data = Plain("") => upc = "failed" /\ uout = EmptyDataError
        /\ (/\ ucall.data # Plain("")
            /\ "encryptionMethod" \in DOMAIN ucall.config
            /\ ucall.config.encryptionMethod # ""
            /\ ucall.config.encryptionMethod \notin ValidMethods)
              => /\ upc = "failed"
                 /\ uout.kind = "error"
                 /\ uout.prefix = IF ucall.fn = "encrypt" THEN "Encryption failed:"
                                  ELSE "Decryption failed:"
        /\ upc = "failed" <=> uout.kind = "error"
        /\ (/\ ucall.fn = "encrypt"
            /\ ucall.data # Plain("")
            /\ "encryptionMethod" \in DOMAIN ucall.config
            /\ ucall.config.encryptionMethod = "")
              => uout = [kind |-> "value",
                         value |-> Encrypted(ucall.data.s, ucall.config)]

\* decrypt was called with text and an invalid method and failed with
\* "Decryption failed:"
C26_Witness ==
    /\ AesEnded
    /\ ucall.fn = "decrypt"
    /\ ucall.data = Plain("invalidEncryptedData")
    /\ "encryptionMethod" \in DOMAIN ucall.config
    /\ ucall.config.encryptionMethod = "invalid-method"
    /\ uout = [kind |-> "error", prefix |-> "Decryption failed:",
               detail |-> "Invalid encryption method"]

(***************************************************************************)
(* Currency.deserialize (utils/currency.ts).                               *)
(***************************************************************************)
\* the digits a text starts with
RECURSIVE DigitPrefix(_)
DigitPrefix(s) ==
    IF s = <<>> \/ ~IsDigit(Head(s)) THEN <<>>
    ELSE <<Head(s)>> \o DigitPrefix(Tail(s))

\* parseFloat of a text without exponent: the longest prefix, after the
\* leading spaces, that is a signed decimal literal
ParseFloat(s) ==
    LET Lead(t) == IF t # <<>> /\ IsSpace(Head(t)) THEN Trim(t) ELSE t
        body == Lead(s)
        Unsigned(t) ==
            LET whole == DigitPrefix(t)
                rest == SubSeq(t, Len(whole) + 1, Len(t))
                frac == IF rest # <<>> /\ Head(rest) = "."
                        THEN DigitPrefix(Tail(rest)) ELSE <<>>
            IN  IF rest # <<>> /\ Head(rest) = "."
                THEN UnsignedDecimal(whole \o <<".">> \o frac)
                ELSE UnsignedDecimal(whole)
    IN  IF body = <<>> THEN NaN
        ELSE IF Head(body) = "-" THEN Negate(Unsigned(Tail(body)))
        ELSE IF Head(body) = "+" THEN Unsigned(Tail(body))
        ELSE Unsigned(body)

\* currency.replace(/^[^\d]+/, "")
RECURSIVE DropLeadingNonDigits(_)
DropLeadingNonDigits(s) ==
    IF s = <<>> \/ IsDigit(Head(s)) THEN s ELSE DropLeadingNonDigits(Tail(s))

\* cleanedCurrency.replace(/\./g, "")
WithoutDots(s) == LET NoDot(c) == c # "." IN SelectSeq(s, NoDot)

\* withoutDots.replace(",", "."): the first comma only
ReplaceFirstComma(s) ==
    LET commas == {i \in 1..Len(s) : s[i] = ","}
        first == CHOOSE i \in commas : \A j \in commas : i <= j
    IN  IF commas = {} THEN s
        ELSE [i \in 1..Len(s) |-> IF i = first THEN "." ELSE s[i]]

CurrencyInputs ==
    {Null, Undefined,
     Str(<<>>),
     Str(<<" ", " ", " ">>),
     Str(<<"0">>),
     Str(<<" ", "0", " ">>),
     Str(<<"R", "p", " ", "0">>),
     Str(<<"R", "p", " ", "1", ".", "0", "0", "0">>),
     Str(<<"1", ".", "0", "0", "0">>),
     Str(<<"R", "p", " ", "1", "5", ".", "0", "0", "0", ",", "5", "0">>),
     Str(<<"1", ".", "2", "3", "4", ".", "5", "6", "7", ",", "8", "9">>),
     Str(<<"i", "n", "v", "a", "l", "i", "d", "-", "s", "t", "r", "i", "n",
         "g">>),
     Str(<<"R", "p", " ", "-", "1", ".", "0", "0", "0">>),
     Str(<<"-", "5">>),
     Str(<<"R", "p">>),
     Str(<<"R", "p", " ", "1", ",", "5", ",", "5">>),
     Str(<<"1", "2", "a", "b", "c">>),
     Str(<<"a", "b", "c", "1", "2">>),
     Str(<<",", "5">>),
     Str(<<"1", ",">>),
     Str(<<"$", " ", "2">>),
     Str(<<"-", "0">>),
     Str(<<"R", "p", " ", "0", ",", "5">>),
     Str(<<"7", " ", "8">>),
     Str(<<"R", "p", " ", "-", "0", ",", "5">>),
     Str(<<"R", "p", " ", "1", ".", "0", "0", "0", ".", "0", "0", "0", ",",
           "7", "5">>)}

\* Currency.deserialize(currency) is called
Deserialize(currency) ==
    /\ upc = "idle"
    /\ ucall' = [made |-> TRUE, fn |-> "deserialize", currency |-> currency,
                 work |-> <<>>]
    /\ upc' = "guard"
    /\ uout' = uout

\* if (!currency || currency.trim() === "0" || currency.trim() === "") return 0
DeserializeGuard ==
    /\ upc = "guard"
    /\ IF \/ ~Truthy(ucall.currency)
          \/ Trim(ucall.currency.s) = <<"0">>
          \/ Trim(ucall.currency.s) = <<>>
       THEN /\ upc' = "done"
            /\ uout' = [kind |-> "value", value |-> Num(0)]
            /\ ucall' = ucall
       ELSE /\ upc' = "clean"
            /\ ucall' = [ucall EXCEPT !.work = ucall.currency.s]
            /\ uout' = uout

\* cleanedCurrency
DeserializeClean ==
    /\ upc = "clean"
    /\ ucall' = [ucall EXCEPT !.work = Trim(DropLeadingNonDigits(ucall.work))]
    /\ upc' = "dots"
    /\ uout' = uout

\* withoutDots
DeserializeDots ==
    /\ upc = "dots"
    /\ ucall' = [ucall EXCEPT !.work = WithoutDots(ucall.work)]
    /\ upc' = "comma"
    /\ uout' = uout

\* normalizedNumber
DeserializeComma ==
    /\ upc = "comma"
    /\ ucall' = [ucall EXCEPT !.work = ReplaceFirstComma(ucall.work)]
    /\ upc' = "parse"
    /\ uout' = uout

\* parseFloat(normalizedNumber), 0 when it is NaN
DeserializeParse ==
    /\ upc = "parse"
    /\ LET number == ParseFloat(ucall.work)
       IN  uout' = [kind |-> "value",
                    value |-> IF number = NaN THEN Num(0) ELSE number]
    /\ upc' = "done"
    /\ ucall' = ucall

CurrencyNext ==
    \/ /\ \E currency \in CurrencyInputs : Deserialize(currency)
       /\ UNCHANGED <<rvars, wvars, lconfig, lenv, lqueue, lout, calls, trip>>
    \/ DeserializeGuard
          /\ UNCHANGED <<rvars, wvars, lconfig, lenv, lqueue, lout, calls, trip>>
    \/ DeserializeClean
          /\ UNCHANGED <<rvars, wvars, lconfig, lenv, lqueue, lout, calls, trip>>
    \/ DeserializeDots
          /\ UNCHANGED <<rvars, wvars, lconfig, lenv, lqueue, lout, calls, trip>>
    \/ DeserializeComma
          /\ UNCHANGED <<rvars, wvars, lconfig, lenv, lqueue, lout, calls, trip>>
    \/ DeserializeParse
          /\ UNCHANGED <<rvars, wvars, lconfig, lenv, lqueue, lout, calls, trip>>

CurrencySpec == Idle /\ [][CurrencyNext]_vars

\* C27: Currency.deserialize returns 0 for null, undefined, the empty text,
\* spaces only, "Rp 0", text without digits such as "invalid-string" and a
\* negative amount such as "Rp -1.000"; its result is never NaN and never
\* negative.
C27_ZeroForInvalid ==
    (ucall.made /\ ucall.fn = "deserialize" /\ upc = "done") =>
        /\ uout.kind = "value"
        /\ uout.value # NaN
        /\ uout.value.num >= 0
        /\ ucall.currency \in
              {Null,
               Undefined,
               Str(<<>>),
               Str(<<" ", " ", " ">>),
               Str(<<"R", "p", " ", "0">>),
               Str(<<"i", "n", "v", "a", "l", "i", "d", "-", "s", "t", "r", "i", "n",
                   "g">>),
               Str(<<"R", "p", " ", "-", "1", ".", "0", "0", "0">>),
               Str(<<"-", "5">>),
               Str(<<"R", "p", " ", "-", "0", ",", "5">>)}
              => uout.value = Num(0)

(***************************************************************************)
(* The logger (src/utils/logger/logger.ts).  lconfig is the singleton's    *)
(* config field, lenv its currentEnv, lqueue its logQueue, and lout what   *)
(* the last call at a level handed to Csl.log.                             *)
(***************************************************************************)
LogLevels == {"info", "success", "warn", "error", "debug", "verbose"}

\* the colour each level method passes to log
LevelColor ==
    [info |-> "blue", success |-> "green", warn |-> "yellow", error |-> "red",
     debug |-> "cyan", verbose |-> "gray"]

\* an object literal without properties
EmptyObject == [k \in {} |-> Undefined]

\* { ...a, ...b }
Spread(a, b) ==
    [k \in DOMAIN a \cup DOMAIN b |-> IF k \in DOMAIN b THEN b[k] ELSE a[k]]

\* o?.[k]: undefined when o is undefined or has no property k
Member(o, k) ==
    IF o = Undefined THEN Undefined
    ELSE IF k \in DOMAIN o THEN o[k]
    ELSE Undefined

\* the initial value of the config field
DefaultConfig ==
    [enabledLevels |->
         Arr(<<"info", "success", "warn", "error", "debug", "verbose">>),
     environments |->
         [production |-> [enabledLevels |-> Arr(<<"error", "warn">>)],
          development |->
              [enabledLevels |->
                   Arr(<<"info", "success", "warn", "error", "debug",
                         "verbose">>)]]]

\* what NODE_ENV || ENVIRONMENT || ENV || "development" can be, lowercased
DetectedEnvs == {"development", "production", "test"}

\* a transformer given to configure: it puts the level before the arguments
PrefixTransformer == [t |-> "function", name |-> "prefix"]

\* the objects given to configure
LoggerConfigs ==
    {EmptyObject,
     [enabledLevels |-> Arr(<<"error">>)],
     [enabledLevels |-> Undefined],
     [transformer |-> PrefixTransformer],
     [environments |-> [production |-> [disabled |-> Bool(TRUE)]]],
     [environments |-> [production |-> [enabledLevels |-> Arr(<<>>)]]],
     [environments |->
          [staging |->
               [enabledLevels |-> Arr(<<"info", "debug">>),
                disabled |-> Bool(FALSE)]]],
     [environments |->
          [test |->
               [disabled |-> Bool(TRUE), enabledLevels |-> Arr(<<"error">>)]]],
     [environments |-> [development |-> EmptyObject]],
     [environments |-> ("" :> [disabled |-> Bool(TRUE)])]}

\* the strings given to setEnvironment, with env.toLowerCase() of each
EnvToLowerCase ==
    [e \in {"production", "PRODUCTION", "development", "Staging", "test", ""}
       |-> CASE e = "PRODUCTION" -> "production"
             [] e = "Staging" -> "staging"
             [] OTHER -> e]

\* the arguments of a call at a level
LogArgs == <<"message">>

\* variant: the global levels come first, the entry's only without them
IsLevelEnabledGlobalFirst(level, env, config) ==
    LET envConfig == Member(Member(config, "environments"), env)
        enabledLevels ==
            IF Truthy(Member(config, "enabledLevels"))
            THEN Member(config, "enabledLevels")
            ELSE Member(envConfig, "enabledLevels")
    IN  IF Truthy(Member(envConfig, "disabled")) THEN FALSE
        ELSE IF enabledLevels = Undefined THEN FALSE
        ELSE \E i \in DOMAIN enabledLevels.items : enabledLevels.items[i] = level

\* isLevelEnabled(level), with env the currentEnv it has made sure is set
IsLevelEnabled(level, env, config) ==
    LET envConfig == Member(Member(config, "environments"), env)
        enabledLevels ==
            IF Truthy(Member(envConfig, "enabledLevels"))
            THEN Member(envConfig, "enabledLevels")
            ELSE Member(config, "enabledLevels")
    IN  IF Truthy(Member(envConfig, "disabled")) THEN FALSE
        ELSE IF enabledLevels = Undefined THEN FALSE
        ELSE \E i \in DOMAIN enabledLevels.items : enabledLevels.items[i] = level

\* log(level, color, ...args) under currentEnv env: what reaches Csl.log
LogOutcome(level, env, config) ==
    IF ~IsLevelEnabled(level, env, config)
    THEN [kind |-> "log", level |-> level, emitted |-> FALSE]
    ELSE [kind |-> "log", level |-> level, emitted |-> TRUE,
          color |-> LevelColor[level],
          args |-> IF Truthy(Member(config, "transformer"))
                   THEN <<level>> \o LogArgs
                   ELSE LogArgs]

\* Logger.getInstance() at module load: the constructor detects currentEnv
GetInstance(detected) ==
    /\ ~lconfig.loaded
    /\ lconfig' = [loaded |-> TRUE, config |-> DefaultConfig]
    /\ lenv' = detected
    /\ UNCHANGED <<lqueue, lout>>

\* configure(config)
Configure(config) ==
    /\ lconfig.loaded
    /\ lconfig' =
           [loaded |-> TRUE,
            config |->
                Spread(Spread(lconfig.config, config),
                       [environments |->
                            Spread(lconfig.config.environments,
                                   IF Member(config, "environments") = Undefined
                                   THEN EmptyObject
                                   ELSE config.environments)])]
    /\ lout' = [kind |-> "none"]
    /\ UNCHANGED <<lenv, lqueue>>

\* setEnvironment(env): currentEnv is set, then processLogQueue logs and
\* removes every queued entry (isLevelEnabled detects the environment anew
\* when currentEnv is empty)
SetEnvironment(env, detected) ==
    /\ lconfig.loaded
    /\ LET lowered == EnvToLowerCase[env]
           current == IF lqueue # <<>> /\ lowered = "" THEN detected ELSE lowered
       IN  /\ lenv' = current
           /\ lout' = IF lqueue = <<>> THEN [kind |-> "none"]
                      ELSE LogOutcome(lqueue[Len(lqueue)].level, current,
                                      lconfig.config)
    /\ lqueue' = <<>>
    /\ UNCHANGED lconfig

\* info / success / warn / error / debug / verbose (...args)
Log(level, detected) ==
    /\ lconfig.loaded
    /\ LET current == IF lenv = "" THEN detected ELSE lenv
       IN  /\ lenv' = current
           /\ lout' = LogOutcome(level, current, lconfig.config)
    /\ UNCHANGED <<lconfig, lqueue>>

LoggerNext ==
    \/ /\ \E detected \in DetectedEnvs : GetInstance(detected)
       /\ UNCHANGED <<rvars, wvars, ucall, upc, uout, calls, trip>>
    \/ /\ \E config \in LoggerConfigs : Configure(config)
       /\ UNCHANGED <<rvars, wvars, ucall, upc, uout, calls, trip>>
    \/ /\ \E env \in DOMAIN EnvToLowerCase, detected \in DetectedEnvs :
             SetEnvironment(env, detected)
       /\ UNCHANGED <<rvars, wvars, ucall, upc, uout, calls, trip>>
    \/ /\ \E level \in LogLevels, detected \in DetectedEnvs :
             Log(level, detected)
       /\ UNCHANGED <<rvars, wvars, ucall, upc, uout, calls, trip>>

LoggerSpec == Idle /\ [][LoggerNext]_vars

\* the entry of the current environment, when the configuration has one
HasEntry == lenv \in DOMAIN lconfig.config.environments
CurrentEntry == lconfig.config.environments[lenv]

\* the levels the claim names: the entry's when it defines them, else the
\* global ones
NamedLevels ==
    IF /\ HasEntry
       /\ "enabledLevels" \in DOMAIN CurrentEntry
       /\ CurrentEntry.enabledLevels # Undefined
    THEN CurrentEntry.enabledLevels
    ELSE lconfig.config.enabledLevels

\* C30: after any configure and setEnvironment calls, a call at level L emits
\* exactly when the current environment's entry is not marked disabled and L
\* is among that entry's enabledLevels if it defines them, else among the
\* global ones; under the default configuration in "production" exactly warn
\* and error emit; the log queue is empty in every state.
C30_EmitsIffEnabled ==
    /\ lqueue = <<>>
    /\ lout.kind = "log" =>
          /\ lout.emitted <=>
                /\ ~(/\ HasEntry
                     /\ "disabled" \in DOMAIN CurrentEntry
                     /\ CurrentEntry.disabled = Bool(TRUE))
                /\ NamedLevels # Undefined
                /\ \E i \in DOMAIN NamedLevels.items :
                       NamedLevels.items[i] = lout.level
          /\ (lconfig.config = DefaultConfig /\ lenv = "production") =>
                (lout.emitted <=> lout.level \in {"warn", "error"})

\* a call at debug emitted in "staging" under the entry configure added, and
\* the transformer configure installed was applied
C30_Witness ==
    /\ lout.kind = "log"
    /\ lout.emitted
    /\ lout.level = "debug"
    /\ lenv = "staging"
    /\ lout.args = <<"debug", "message">>
    /\ lconfig.config.enabledLevels = Arr(<<"error">>)

(***************************************************************************)
(* Overlapping parseExcel calls.  Every call has its own file, jsonData,   *)
(* transformedData and result (they are parameters and locals of the       *)
(* methods); the only field of the instance is options, assigned by the    *)
(* constructor.  calls holds the locals of the calls made so far; two      *)
(* instances built from the same configuration read equal options, so one  *)
(* options stands for both.                                                *)
(***************************************************************************)
MaxCalls == 2

\* the configurations the overlapping calls run under
SharedOptions ==
    {Options(<<"Price">>, <<<<"Name", "name">>, <<"Price", "price">>>>,
             [name |-> "string", price |-> "number"], EmptyRecord),
     Options(<<>>, <<<<"Name", "name">>>>, [name |-> "string"],
             [name |-> "lowerTrim"]),
     Options(<<>>, <<<<"Name", "name">>>>, [name |-> "date"], EmptyRecord)}

\* the files given to the overlapping calls
SharedFiles ==
    {NoFile, FileOf(<<>>)}
        \cup {FileOf(<<row>>) : row \in TableRows}
        \cup {FileOf(<<[Name |-> Str(<<"A", "n", "n", " ">>),
                        Price |-> Str(<<"1", "0", ".", "5">>)],
                       [Name |-> Num(5)]>>),
              FileOf(<<[Name |-> Str(<<"2", "0", "2", "4">>)]>>)}

\* parseExcel(file) up to the await of readFileAsArrayBuffer
CallOf(f) ==
    [file |-> f, pc |-> IF f.present THEN "reading" ELSE "failed",
     jsonData |-> <<>>, idx |-> 0, transformedData |-> <<>>,
     validated |-> <<>>,
     error |-> IF f.present THEN NoError ELSE [type |-> "NoFile"]]

Failed(c, e) == [c EXCEPT !.pc = "failed", !.error = e]

\* variant: the decoded sheet is kept in a field of the instance, so a call
\* sees the sheet of the call made last
SheetOfLatest(cs, i) ==
    LET held == {j \in DOMAIN cs : cs[j].file.present}
    IN  cs[CHOOSE j \in held : \A k \in held : k <= j].file.sheet

\* convertToJson(arrayBuffer) of call i: the sheet of the file it was given
SheetOf(cs, i) == cs[i].file.sheet

\* the next step of a call with locals c under options opts, sheet being
\* what its file read resolves to: every way the step can end
CallSteps(opts, c, sheet) ==
    CASE c.pc = "reading" ->
            {[c EXCEPT !.jsonData = sheet, !.pc = "validateHeaders"],
             Failed(c, [type |-> "ReadError"])}
      [] c.pc = "validateHeaders" ->
            IF Len(c.jsonData) = 0 THEN {Failed(c, [type |-> "EmptyFile"])}
            ELSE LET missingHeaders ==
                         MissingHeaders(opts.expectedHeaders, c.jsonData)
                 IN  IF Len(missingHeaders) > 0
                     THEN {Failed(c, [type |-> "MissingHeaders",
                                      headers |-> missingHeaders])}
                     ELSE {[c EXCEPT !.pc = "transformData", !.idx = 1]}
      [] c.pc = "transformData" ->
            LET r == TransformRow(opts, c.jsonData[c.idx])
            IN  IF r.threw
                THEN {Failed(c, [type |-> "TransformationThrew",
                                 row |-> c.idx, field |-> r.field])}
                ELSE {[c EXCEPT
                         !.transformedData = Append(@, r.row),
                         !.idx = IF c.idx < Len(c.jsonData) THEN @ + 1 ELSE 1,
                         !.pc = IF c.idx < Len(c.jsonData) THEN @
                                ELSE "validateData"]}
      [] c.pc = "validateData" ->
            {IF ~accepted THEN Failed(c, ValidationError(c.idx - 1))
             ELSE [c EXCEPT
                     !.validated =
                         Append(@, SchemaOutput(opts.shape,
                                                c.transformedData[c.idx])),
                     !.idx = IF c.idx < Len(c.transformedData) THEN @ + 1 ELSE @,
                     !.pc = IF c.idx < Len(c.transformedData) THEN @ ELSE "done"] :
               accepted \in SchemaVerdicts(opts.shape, c.transformedData[c.idx])}
      [] OTHER -> {}

\* a caller calls parseExcel(f) while earlier calls may still be running
\* (during records the calls that had not ended when this one was made)
CallParseExcel(f) ==
    /\ Len(calls) < MaxCalls
    /\ calls' =
           Append(calls,
                  Spread(CallOf(f),
                         [during |-> {j \in DOMAIN calls :
                                         calls[j].pc \notin {"done", "failed"}}]))

\* call i, being at stage, takes its next step
CallStep(i, stage) ==
    /\ calls[i].pc = stage
    /\ \E d \in CallSteps(options, calls[i], SheetOf(calls, i)) :
          calls' = [calls EXCEPT ![i] = d]

ConcurrentNext ==
    \/ /\ \E f \in SharedFiles : CallParseExcel(f)
       /\ UNCHANGED <<rvars, wvars, ucall, upc, uout, lconfig, lenv, lqueue,
                      lout, trip>>
    \/ /\ \E i \in DOMAIN calls :
             \E stage \in {"reading", "validateHeaders"} : CallStep(i, stage)
       /\ UNCHANGED <<rvars, wvars, ucall, upc, uout, lconfig, lenv, lqueue,
                      lout, trip>>
    \/ /\ \E i \in DOMAIN calls : CallStep(i, "transformData")
       /\ UNCHANGED <<rvars, wvars, ucall, upc, uout, lconfig, lenv, lqueue,
                      lout, trip>>
    \/ /\ \E i \in DOMAIN calls : CallStep(i, "validateData")
       /\ UNCHANGED <<rvars, wvars, ucall, upc, uout, lconfig, lenv, lqueue,
                      lout, trip>>

\* new ExcelParser(options)
ConcurrentInit == Init /\ options \in SharedOptions

ConcurrentSpec == ConcurrentInit /\ [][ConcurrentNext]_vars

\* what a call hands to its caller: the records or the error
Outcome(c) == [pc |-> c.pc, records |-> c.validated, error |-> c.error]

\* the outcomes of the call with locals c when no other call is made
RECURSIVE Alone(_, _)
Alone(opts, c) ==
    IF c.pc \in {"done", "failed"} THEN {Outcome(c)}
    ELSE UNION {Alone(opts, d) : d \in CallSteps(opts, c, c.file.sheet)}

\* C24: when parseExcel calls overlap, in every interleaving of their file
\* reads and stages, the outcome of each call (its records or its error) is
\* an outcome the call has when it runs alone on its file, and a call that
\* has not ended can still only end that way.
C24_ConcurrentIndependence ==
    \A i \in DOMAIN calls :
        /\ calls[i].pc \in {"done", "failed"} =>
              Outcome(calls[i]) \in Alone(options, CallOf(calls[i].file))
        /\ calls[i].pc \notin {"done", "failed", "reading"} =>
              /\ calls[i].jsonData = calls[i].file.sheet
              /\ Alone(options, calls[i]) \subseteq
                     Alone(options, CallOf(calls[i].file))

\* two calls on different files overlapped (the second was made and read
\* its file while the first was between its stages) and both have ended,
\* one with records and one with an error
C24_Witness ==
    /\ Len(calls) = 2
    /\ calls[2].during = {1}
    /\ calls[1].file # calls[2].file
    /\ calls[1].pc = "done"
    /\ calls[2].pc = "failed"
    /\ calls[2].error.type = "RowValidation"
    /\ Len(calls[1].validated) = 2

(***************************************************************************)
(* The round trip: parseExcel returns records, generateExcel writes them   *)
(* under the inverse of fieldMapping, and parseExcel reads the workbook    *)
(* with the same options.  trip holds the three results.                   *)
(***************************************************************************)
\* the characters of the headers and field names
CharsOf ==
    [Name |-> <<"N", "a", "m", "e">>, Price |-> <<"P", "r", "i", "c", "e">>,
     Stock |-> <<"S", "t", "o", "c", "k">>,
     name |-> <<"n", "a", "m", "e">>, price |-> <<"p", "r", "i", "c", "e">>]

\* the configurations whose fieldMapping has an inverse (no field named by
\* two headers); fields of kind date and array are left out, a workbook
\* holding neither Date objects nor arrays as the reader made them
TripOptions ==
    {o \in AllOptions :
        /\ \A i, j \in 1..Len(o.fieldMapping) :
              o.fieldMapping[i][2] = o.fieldMapping[j][2] => i = j
        /\ \A f \in DOMAIN o.shape : o.shape[f] \notin {"date", "array"}}

\* a record parseExcel returned, as the object generateExcel is given: the
\* keys in the order of the schema's shape
ItemOf(rec) ==
    LET Present(f) == f \in DOMAIN rec
        keys == SelectSeq(<<"name", "price">>, Present)
    IN  [i \in 1..Len(keys) |-> Entry(CharsOf[keys[i]], rec[keys[i]])]

\* the headerMapping that is the inverse of fieldMapping: each target field
\* is mapped to its Excel header
InverseOf(fieldMapping) ==
    LET Header(k) ==
            CHOOSE h \in Headers :
                \E i \in 1..Len(fieldMapping) :
                    /\ fieldMapping[i][1] = h
                    /\ CharsOf[fieldMapping[i][2]] = k
    IN  [k \in {CharsOf[fieldMapping[i][2]] : i \in 1..Len(fieldMapping)} |->
            CharsOf[Header(k)]]

\* XLSX.read and sheet_to_json of a workbook XLSX.write made: a row is keyed
\* by the header row, a null or undefined value was written as no cell and
\* is absent, and a row without cells is not returned
SheetToJson(workbook) ==
    LET HeaderOf(k) == CHOOSE h \in Headers \cup Fields : CharsOf[h] = k
        Filled(item) ==
            {i \in 1..Len(item) : item[i].v \notin {Null, Undefined}}
        RowOf(item) ==
            [h \in {HeaderOf(item[i].k) : i \in Filled(item)} |->
                ValueAt(item, CharsOf[h])]
        HasCell(item) == Filled(item) # {}
        kept == SelectSeq(workbook.rows, HasCell)
    IN  [r \in 1..Len(kept) |-> RowOf(kept[r])]

\* parseExcel(file) under options opts, to its end
TripParse(opts, f) ==
    /\ trip.stage = "idle"
    /\ \E o \in Alone(opts, CallOf(f)) :
          trip' = [stage |-> IF o.pc = "done" THEN "parsed" ELSE "rejected",
                   options |-> opts, file |-> f, first |-> o]

\* generateExcel(R, { headerMapping }) with R the records returned and
\* headerMapping the inverse of fieldMapping
TripGenerate ==
    /\ trip.stage = "parsed"
    /\ LET data == [r \in 1..Len(trip.first.records) |->
                       ItemOf(trip.first.records[r])]
           headerMapping == InverseOf(trip.options.fieldMapping)
           mapped == [r \in 1..Len(data) |->
                         MapItem(FilterItem(data[r], <<>>), headerMapping)]
       IN  trip' = Spread(trip, [stage |-> "written",
                                 workbook |-> Workbook(mapped, <<"Sheet1">>)])

\* parseExcel of the written workbook under the same options
TripReparse ==
    /\ trip.stage = "written"
    /\ \E o \in Alone(trip.options, CallOf(FileOf(SheetToJson(trip.workbook)))) :
          trip' = Spread(trip, [stage |-> "reparsed", again |-> o])

RoundTripNext ==
    \/ /\ \E opts \in TripOptions, f \in Files : TripParse(opts, f)
       /\ UNCHANGED <<rvars, wvars, ucall, upc, uout, lconfig, lenv, lqueue,
                      lout, calls>>
    \/ /\ TripGenerate
       /\ UNCHANGED <<rvars, wvars, ucall, upc, uout, lconfig, lenv, lqueue,
                      lout, calls>>
    \/ /\ TripReparse
       /\ UNCHANGED <<rvars, wvars, ucall, upc, uout, lconfig, lenv, lqueue,
                      lout, calls>>

RoundTripSpec == Idle /\ [][RoundTripNext]_vars

\* C21: records R returned by parseExcel, written by generateExcel with the
\* headerMapping that is the inverse of fieldMapping and parsed again under
\* the same options, come back as records equal to R.
C21_RoundTrip ==
    (trip.stage = "reparsed" /\ trip.again.error.type # "ReadError") =>
        /\ trip.again.pc = "done"
        /\ trip.again.records = trip.first.records

====
